---- MODULE Spec2Model ----
(***************************************************************************)
(* Model of the Fragment Manager (src/meta/src/manager/catalog/fragment.rs) *)
(* The in-memory job map, the Meta Store rows, and the public operations   *)
(* of FragmentManager, each translated from its body.                      *)
(***************************************************************************)
EXTENDS Integers, Sequences, FiniteSets, TLC

VARIABLES
    table_fragments,  \* FragmentManagerCore.table_fragments : TableId -> TableFragments
    meta_store,       \* the TableFragments rows of the Meta Store : TableId -> TableFragments
    last,             \* the last completed call: operation, arguments, outcome
    migrating,        \* new_fragments of a migrate_actors call between its two guards
    lock,             \* the holder of the write guard of core, or "free"
    call              \* per caller: the call in progress and where it stands

vars == <<table_fragments, meta_store, last, migrating, lock, call>>

Callers == {"c1", "c2"}

Idle == [pc |-> "idle", op |-> "none", arg |-> {}, res |-> "ok", queue |-> <<>>]

(***************************************************************************)
(* Bounds                                                                  *)
(***************************************************************************)
\* an actor holds at most this many dispatchers (post_create may be repeated)
MaxDispatchers == 2

(***************************************************************************)
(* Generic helpers                                                         *)
(***************************************************************************)
EmptyMap == [k \in {} |-> {}]

\* Option<T>: None, Some(x)
None == <<>>

Some(x) == <<x>>

MinOf(S) == CHOOSE x \in S : \A y \in S : x <= y

RECURSIVE SortedSeq(_)
\* the elements of a finite set of integers in ascending order (BTreeMap order)
SortedSeq(S) == IF S = {} THEN <<>> ELSE <<MinOf(S)>> \o SortedSeq(S \ {MinOf(S)})

SeqToSet(s) == {s[i] : i \in 1..Len(s)}

SelectSeqIn(s, S) == SelectSeq(s, LAMBDA x : x \in S)

SelectSeqNotIn(s, S) == SelectSeq(s, LAMBDA x : x \notin S)

(***************************************************************************)
(* Constructors of the protobuf values                                     *)
(***************************************************************************)
ParallelUnit(id, worker) == [id |-> id, worker_node_id |-> worker]

Dispatcher(did, downstream, mapping) ==
    [dispatcher_id |-> did, downstream_actor_id |-> downstream, hash_mapping |-> mapping]

MergeNode(fid, upstream) ==
    [body |-> "Merge", upstream_fragment_id |-> fid, upstream_actor_id |-> upstream,
     input |-> <<>>]

OtherNode(input) ==
    [body |-> "Other", upstream_fragment_id |-> 0, upstream_actor_id |-> <<>>,
     input |-> input]

StreamActor(id, dispatcher, upstream, nodes) ==
    [actor_id |-> id, dispatcher |-> dispatcher, upstream_actor_id |-> upstream,
     nodes |-> Some(nodes), vnode_bitmap |-> None]

Fragment(id, type, actors, mapping, tables, upstream_tables) ==
    [fragment_id |-> id, fragment_type |-> type, actors |-> actors,
     vnode_mapping |-> mapping, state_table_ids |-> tables,
     upstream_table_ids |-> upstream_tables]

ActorMapping(indices, data) == [original_indices |-> indices, data |-> data]

ParallelUnitMapping(fid, indices, data) ==
    [fragment_id |-> fid, original_indices |-> indices, data |-> data]

Inactive(pu) == [state |-> "Inactive", parallel_unit |-> Some(pu)]

(***************************************************************************)
(* Meta-store transaction helper (BTreeMapTransaction, commit_meta!)       *)
(***************************************************************************)
BTreeMapTransaction_new(tree) == [tree |-> tree, staging |-> EmptyMap]

Txn_contains(t, k) ==
    IF k \in DOMAIN t.staging THEN t.staging[k].op = "Insert" ELSE k \in DOMAIN t.tree

Txn_get(t, k) == IF k \in DOMAIN t.staging THEN t.staging[k].value ELSE t.tree[k]

Txn_insert(t, k, v) ==
    [t EXCEPT !.staging = (k :> [op |-> "Insert", value |-> v]) @@ t.staging]

Txn_remove(t, k) ==
    [t EXCEPT !.staging = (k :> [op |-> "Delete", value |-> {}]) @@ t.staging]

\* the staged edits applied to a key/value map (the live map, or the store rows)
ApplyStaging(tree, staging) ==
    LET ins == {k \in DOMAIN staging : staging[k].op = "Insert"}
        del == {k \in DOMAIN staging : staging[k].op = "Delete"}
    IN  [k \in ((DOMAIN tree) \cup ins) \ del |->
            IF k \in ins THEN staging[k].value ELSE tree[k]]

Outcome(res, msg, map, store, notifs) ==
    [res |-> res, msg |-> msg, map |-> map, store |-> store, notifs |-> notifs]

\* commit_meta!(self, txn): one atomic batch to the store, then the staged edits
\* are applied to the live map; a failed store write returns the error.
commit_meta(t, store, ok, notifs) ==
    IF ok
    THEN Outcome("ok", "", ApplyStaging(t.tree, t.staging),
                 ApplyStaging(store, t.staging), notifs)
    ELSE Outcome("err", "meta store", t.tree, store, <<>>)

(***************************************************************************)
(* Table-fragments model (TableFragments)                                  *)
(***************************************************************************)
fragment_ids(tf) == DOMAIN tf.fragments

actor_ids(tf) ==
    UNION {{tf.fragments[f].actors[i].actor_id : i \in 1..Len(tf.fragments[f].actors)}
           : f \in DOMAIN tf.fragments}

chain_actor_ids(tf) ==
    UNION {{tf.fragments[f].actors[i].actor_id : i \in 1..Len(tf.fragments[f].actors)}
           : f \in {g \in DOMAIN tf.fragments : tf.fragments[g].fragment_type = "Chain"}}

dependent_table_ids(tf) ==
    UNION {tf.fragments[f].upstream_table_ids
           : f \in {g \in DOMAIN tf.fragments : tf.fragments[g].fragment_type = "Chain"}}

update_actors_state(tf, s) ==
    [tf EXCEPT !.actor_status = [a \in DOMAIN tf.actor_status |->
                                    [tf.actor_status[a] EXCEPT !.state = s]]]

\* the per-fragment assignment flattened into one ActorId -> splits map
FlattenSplits(A) ==
    LET ids == UNION {DOMAIN A[f] : f \in DOMAIN A}
    IN  [a \in ids |-> A[CHOOSE f \in DOMAIN A : a \in DOMAIN A[f]][a]]

set_actor_splits_by_split_assignment(tf, A) ==
    [tf EXCEPT !.actor_splits = FlattenSplits(A)]

(***************************************************************************)
(* notify_fragment_mapping                                                 *)
(***************************************************************************)
\* notify_frontend(operation, Info::ParallelUnitMapping(mapping))
Notification(operation, mapping) ==
    [operation |-> operation, fragment_id |-> mapping.fragment_id,
     original_indices |-> mapping.original_indices, data |-> mapping.data]

RECURSIVE MappingNotifs(_, _, _)
MappingNotifs(tf, fids, operation) ==
    IF fids = <<>> THEN <<>>
    ELSE LET f == tf.fragments[Head(fids)]
         IN  (IF f.state_table_ids # {}
              THEN <<Notification(operation, f.vnode_mapping[1])>>
              ELSE <<>>) \o MappingNotifs(tf, Tail(fids), operation)

notify_fragment_mapping(tf, operation) ==
    MappingNotifs(tf, SortedSeq(DOMAIN tf.fragments), operation)

(***************************************************************************)
(* Lifecycle controller                                                    *)
(***************************************************************************)
start_create_no_check(m, store, tf, ok) ==
    commit_meta(Txn_insert(BTreeMapTransaction_new(m), tf.table_id, tf), store, ok, <<>>)

start_create_table_fragments(m, store, tf, ok) ==
    IF tf.table_id \in DOMAIN m
    THEN Outcome("err", "already exist", m, store, <<>>)
    ELSE commit_meta(Txn_insert(BTreeMapTransaction_new(m), tf.table_id, tf),
                     store, ok, <<>>)

cancel_create_only_creating(m, store, id, ok) ==
    IF id \in DOMAIN m /\ m[id].state # "Creating"
    THEN Outcome("err", "not creating", m, store, <<>>)
    ELSE commit_meta(Txn_remove(BTreeMapTransaction_new(m), id), store, ok, <<>>)

cancel_create_skips_remove(m, store, id, ok) ==
    commit_meta(BTreeMapTransaction_new(m), store, ok, <<>>)

cancel_create_missing_is_error(m, store, id, ok) ==
    IF id \notin DOMAIN m
    THEN Outcome("err", "not exist", m, store, <<>>)
    ELSE commit_meta(Txn_remove(BTreeMapTransaction_new(m), id), store, ok, <<>>)

cancel_create_table_fragments(m, store, id, ok) ==
    commit_meta(Txn_remove(BTreeMapTransaction_new(m), id), store, ok, <<>>)

\* whether actor i of fragment f is the first actor of tf, in iteration order,
\* with its id (the patch entry is consumed by new_dispatchers.remove)
FirstWithId(tf, f, i) ==
    LET id == tf.fragments[f].actors[i].actor_id
    IN  /\ \A j \in 1..(i - 1) : tf.fragments[f].actors[j].actor_id # id
        /\ \A g \in DOMAIN tf.fragments :
              g < f => \A j \in 1..Len(tf.fragments[g].actors) :
                          tf.fragments[g].actors[j].actor_id # id

extend_dispatchers(tf, patch) ==
    [tf EXCEPT !.fragments = [f \in DOMAIN tf.fragments |->
        [tf.fragments[f] EXCEPT !.actors = [i \in 1..Len(tf.fragments[f].actors) |->
            LET a == tf.fragments[f].actors[i]
            IN  IF a.actor_id \in DOMAIN patch /\ FirstWithId(tf, f, i)
                THEN [a EXCEPT !.dispatcher = @ \o patch[a.actor_id]]
                ELSE a]]]]

RECURSIVE apply_dependent_table_actors(_, _)
\* the loop over dependent_table_actors; stops at the first missing dependent
apply_dependent_table_actors(t, deps) ==
    IF deps = <<>> THEN [found |-> TRUE, txn |-> t]
    ELSE LET did == Head(deps)[1]
             patch == Head(deps)[2]
         IN  IF ~Txn_contains(t, did)
             THEN [found |-> FALSE, txn |-> t]
             ELSE apply_dependent_table_actors(
                      Txn_insert(t, did, extend_dispatchers(Txn_get(t, did), patch)),
                      Tail(deps))

post_create_sets_created(m, store, id, deps, split, ok) ==
    LET t0 == BTreeMapTransaction_new(m)
    IN  IF ~Txn_contains(t0, id)
        THEN Outcome("err", "not exist", m, store, <<>>)
        ELSE IF Txn_get(t0, id).state # "Creating"
        THEN Outcome("panic", "assert_eq state", m, store, <<>>)
        ELSE LET tf == [set_actor_splits_by_split_assignment(
                           update_actors_state(Txn_get(t0, id), "Running"), split)
                        EXCEPT !.state = "Created"]
                 r == apply_dependent_table_actors(Txn_insert(t0, id, tf), deps)
             IN  IF ~r.found
                 THEN Outcome("err", "dependent not exist", m, store, <<>>)
                 ELSE commit_meta(r.txn, store, ok, notify_fragment_mapping(tf, "Add"))

post_create_partial_on_missing(m, store, id, deps, split, ok) ==
    LET t0 == BTreeMapTransaction_new(m)
    IN  IF ~Txn_contains(t0, id)
        THEN Outcome("err", "not exist", m, store, <<>>)
        ELSE IF Txn_get(t0, id).state # "Creating"
        THEN Outcome("panic", "assert_eq state", m, store, <<>>)
        ELSE LET tf == set_actor_splits_by_split_assignment(
                           update_actors_state(Txn_get(t0, id), "Running"), split)
                 r == apply_dependent_table_actors(Txn_insert(t0, id, tf), deps)
             IN  IF ~r.found
                 THEN Outcome("err", "dependent not exist",
                              ApplyStaging(m, r.txn.staging), store, <<>>)
                 ELSE commit_meta(r.txn, store, ok, notify_fragment_mapping(tf, "Add"))

post_create_notifies_before_commit(m, store, id, deps, split, ok) ==
    LET t0 == BTreeMapTransaction_new(m)
    IN  IF ~Txn_contains(t0, id)
        THEN Outcome("err", "not exist", m, store, <<>>)
        ELSE IF Txn_get(t0, id).state # "Creating"
        THEN Outcome("panic", "assert_eq state", m, store, <<>>)
        ELSE LET tf == set_actor_splits_by_split_assignment(
                           update_actors_state(Txn_get(t0, id), "Running"), split)
                 r == apply_dependent_table_actors(Txn_insert(t0, id, tf), deps)
                 c == commit_meta(r.txn, store, ok, <<>>)
             IN  IF ~r.found
                 THEN Outcome("err", "dependent not exist", m, store, <<>>)
                 ELSE Outcome(c.res, c.msg, c.map, c.store,
                              notify_fragment_mapping(tf, "Add"))

post_create_table_fragments(m, store, id, deps, split, ok) ==
    LET t0 == BTreeMapTransaction_new(m)
    IN  IF ~Txn_contains(t0, id)
        THEN Outcome("err", "not exist", m, store, <<>>)
        ELSE IF Txn_get(t0, id).state # "Creating"
        THEN Outcome("panic", "assert_eq state", m, store, <<>>)
        ELSE LET tf == set_actor_splits_by_split_assignment(
                           update_actors_state(Txn_get(t0, id), "Running"), split)
                 r == apply_dependent_table_actors(Txn_insert(t0, id, tf), deps)
             IN  IF ~r.found
                 THEN Outcome("err", "dependent not exist", m, store, <<>>)
                 ELSE commit_meta(r.txn, store, ok, notify_fragment_mapping(tf, "Add"))

mark_created_resets_actors(m, store, id, ok) ==
    LET t0 == BTreeMapTransaction_new(m)
    IN  IF ~Txn_contains(t0, id)
        THEN Outcome("err", "not exist", m, store, <<>>)
        ELSE IF Txn_get(t0, id).state # "Creating"
        THEN Outcome("panic", "assert_eq state", m, store, <<>>)
        ELSE commit_meta(
                 Txn_insert(t0, id,
                     [update_actors_state(Txn_get(t0, id), "Inactive")
                      EXCEPT !.state = "Created"]),
                 store, ok, <<>>)

\* a mark_created that also sets the actors Running
mark_created_activates_actors(m, store, id, ok) ==
    LET t0 == BTreeMapTransaction_new(m)
    IN  IF ~Txn_contains(t0, id)
        THEN Outcome("err", "not exist", m, store, <<>>)
        ELSE IF Txn_get(t0, id).state # "Creating"
        THEN Outcome("panic", "assert_eq state", m, store, <<>>)
        ELSE commit_meta(
                 Txn_insert(t0, id,
                     [update_actors_state(Txn_get(t0, id), "Running")
                      EXCEPT !.state = "Created"]),
                 store, ok, <<>>)

mark_created_state_error(m, store, id, ok) ==
    LET t0 == BTreeMapTransaction_new(m)
    IN  IF ~Txn_contains(t0, id)
        THEN Outcome("err", "not exist", m, store, <<>>)
        ELSE IF Txn_get(t0, id).state # "Creating"
        THEN Outcome("err", "illegal state", m, store, <<>>)
        ELSE commit_meta(Txn_insert(t0, id, [Txn_get(t0, id) EXCEPT !.state = "Created"]),
                         store, ok, <<>>)

mark_table_fragments_created(m, store, id, ok) ==
    LET t0 == BTreeMapTransaction_new(m)
    IN  IF ~Txn_contains(t0, id)
        THEN Outcome("err", "not exist", m, store, <<>>)
        ELSE IF Txn_get(t0, id).state # "Creating"
        THEN Outcome("panic", "assert_eq state", m, store, <<>>)
        ELSE commit_meta(Txn_insert(t0, id, [Txn_get(t0, id) EXCEPT !.state = "Created"]),
                         store, ok, <<>>)

\* the dispatchers of one actor after a drop: the chain actors of the dropped job
\* leave every downstream list, and a dispatcher left without downstream is dropped
retain_dispatchers(dispatcher, chain) ==
    SelectSeq([i \in 1..Len(dispatcher) |->
                  [dispatcher[i] EXCEPT !.downstream_actor_id = SelectSeqNotIn(@, chain)]],
              LAMBDA d : d.downstream_actor_id # <<>>)

remove_downstream_all_fragments(tf, chain) ==
    [tf EXCEPT !.fragments = [f \in DOMAIN tf.fragments |->
        [tf.fragments[f] EXCEPT !.actors = [i \in 1..Len(tf.fragments[f].actors) |->
            [tf.fragments[f].actors[i] EXCEPT
                !.dispatcher = retain_dispatchers(@, chain)]]]]]

\* the edit of one dependent table: only its Sink fragments are visited
remove_downstream_actors(tf, chain) ==
    [tf EXCEPT !.fragments = [f \in DOMAIN tf.fragments |->
        IF tf.fragments[f].fragment_type = "Sink"
        THEN [tf.fragments[f] EXCEPT !.actors = [i \in 1..Len(tf.fragments[f].actors) |->
                 [tf.fragments[f].actors[i] EXCEPT
                     !.dispatcher = retain_dispatchers(@, chain)]]]
        ELSE tf.fragments[f]]]

RECURSIVE drop_dependents_overwrites(_, _, _, _)
drop_dependents_overwrites(t, deps, table_ids, chain) ==
    IF deps = <<>> THEN [found |-> TRUE, txn |-> t]
    ELSE IF Head(deps) \in table_ids
    THEN drop_dependents_overwrites(t, Tail(deps), table_ids, chain)
    ELSE IF ~Txn_contains(t, Head(deps))
    THEN [found |-> FALSE, txn |-> t]
    ELSE drop_dependents_overwrites(
             Txn_insert(t, Head(deps),
                        remove_downstream_actors(t.tree[Head(deps)], chain)),
             Tail(deps), table_ids, chain)

RECURSIVE drop_dependents(_, _, _, _)
\* the inner loop of drop_table_fragments_vec over dependent_table_ids
drop_dependents(t, deps, table_ids, chain) ==
    IF deps = <<>> THEN [found |-> TRUE, txn |-> t]
    ELSE IF Head(deps) \in table_ids
    THEN drop_dependents(t, Tail(deps), table_ids, chain)
    ELSE IF ~Txn_contains(t, Head(deps))
    THEN [found |-> FALSE, txn |-> t]
    ELSE drop_dependents(
             Txn_insert(t, Head(deps),
                        remove_downstream_actors(Txn_get(t, Head(deps)), chain)),
             Tail(deps), table_ids, chain)

RECURSIVE drop_each(_, _, _)
\* the outer loop of drop_table_fragments_vec over to_delete_table_fragments
drop_each(t, to_delete, table_ids) ==
    IF to_delete = <<>> THEN [found |-> TRUE, txn |-> t]
    ELSE LET tf == Head(to_delete)
             r == drop_dependents(Txn_remove(t, tf.table_id),
                                  SortedSeq(dependent_table_ids(tf)),
                                  table_ids, chain_actor_ids(tf))
         IN  IF ~r.found THEN r ELSE drop_each(r.txn, Tail(to_delete), table_ids)

RECURSIVE ConcatNotifs(_, _)
ConcatNotifs(tfs, operation) ==
    IF tfs = <<>> THEN <<>>
    ELSE notify_fragment_mapping(Head(tfs), operation) \o ConcatNotifs(Tail(tfs), operation)

drop_table_fragments_vec_partial_on_missing(m, store, ids, ok) ==
    LET present == SelectSeqIn(ids, DOMAIN m)
        to_delete == [i \in 1..Len(present) |-> m[present[i]]]
        r == drop_each(BTreeMapTransaction_new(m), to_delete, SeqToSet(ids))
    IN  IF ~r.found
        THEN Outcome("err", "dependent not exist", ApplyStaging(m, r.txn.staging), store, <<>>)
        ELSE commit_meta(r.txn, store, ok, ConcatNotifs(to_delete, "Delete"))

drop_table_fragments_vec_live_edit(m, store, ids, ok) ==
    LET present == SelectSeqIn(ids, DOMAIN m)
        to_delete == [i \in 1..Len(present) |-> m[present[i]]]
        r == drop_each(BTreeMapTransaction_new(m), to_delete, SeqToSet(ids))
        c == commit_meta(r.txn, store, ok, ConcatNotifs(to_delete, "Delete"))
    IN  IF ~r.found
        THEN Outcome("err", "dependent not exist", m, store, <<>>)
        ELSE [c EXCEPT !.map = ApplyStaging(m, r.txn.staging)]

\* ids: the members of the table_ids set in its iteration order
drop_table_fragments_vec_notifies_patched(m, store, ids, ok) ==
    LET present == SelectSeqIn(ids, DOMAIN m)
        to_delete == [i \in 1..Len(present) |-> m[present[i]]]
        r == drop_each(BTreeMapTransaction_new(m), to_delete, SeqToSet(ids))
        after == ApplyStaging(r.txn.tree, r.txn.staging)
        touched == SortedSeq({i \in DOMAIN m : i \notin DOMAIN after \/ after[i] # m[i]})
    IN  IF ~r.found
        THEN Outcome("err", "dependent not exist", m, store, <<>>)
        ELSE commit_meta(r.txn, store, ok,
                         ConcatNotifs([i \in 1..Len(touched) |-> m[touched[i]]], "Delete"))

drop_table_fragments_vec(m, store, ids, ok) ==
    LET present == SelectSeqIn(ids, DOMAIN m)
        to_delete == [i \in 1..Len(present) |-> m[present[i]]]
        r == drop_each(BTreeMapTransaction_new(m), to_delete, SeqToSet(ids))
    IN  IF ~r.found
        THEN Outcome("err", "dependent not exist", m, store, <<>>)
        ELSE commit_meta(r.txn, store, ok, ConcatNotifs(to_delete, "Delete"))

RECURSIVE insert_all(_, _)
insert_all(t, tfs) ==
    IF tfs = <<>> THEN t
    ELSE insert_all(Txn_insert(t, Head(tfs).table_id, Head(tfs)), Tail(tfs))

RECURSIVE insert_present(_, _)
insert_present(t, tfs) ==
    IF tfs = <<>> THEN t
    ELSE insert_present(IF Txn_contains(t, Head(tfs).table_id)
                        THEN Txn_insert(t, Head(tfs).table_id, Head(tfs)) ELSE t,
                        Tail(tfs))

\* select_table_fragments_by_table_id: a clone of the job under the read lock
select_table_fragments_by_table_id(m, id) ==
    IF id \in DOMAIN m
    THEN [res |-> "ok", msg |-> "", value |-> Some(m[id])]
    ELSE [res |-> "err", msg |-> "table_fragment not exist", value |-> None]

batch_update_live_insert(m, store, tfs, ok) ==
    IF \E i \in 1..Len(tfs) : tfs[i].table_id \notin DOMAIN m
    THEN Outcome("err", "table not found", m, store, <<>>)
    ELSE LET t == insert_all(BTreeMapTransaction_new(m), tfs)
             c == commit_meta(t, store, ok, ConcatNotifs(tfs, "Update"))
         IN  Outcome(c.res, c.msg, ApplyStaging(t.tree, t.staging), c.store, c.notifs)

batch_update_skips_missing(m, store, tfs, ok) ==
    LET present == SelectSeq(tfs, LAMBDA tf : tf.table_id \in DOMAIN m)
    IN  commit_meta(insert_present(BTreeMapTransaction_new(m), tfs), store, ok,
                    ConcatNotifs(present, "Update"))

batch_update_table_fragments(m, store, tfs, ok) ==
    IF \E i \in 1..Len(tfs) : tfs[i].table_id \notin DOMAIN m
    THEN Outcome("err", "table not found", m, store, <<>>)
    ELSE commit_meta(insert_all(BTreeMapTransaction_new(m), tfs), store, ok,
                     ConcatNotifs(tfs, "Update"))

RECURSIVE collect_splits(_, _)
\* the splits of the fragments fids in A, a later fragment overriding an earlier
collect_splits(A, fids) ==
    IF fids = <<>> THEN EmptyMap
    ELSE collect_splits(A, Tail(fids))
         @@ (IF Head(fids) \in DOMAIN A THEN A[Head(fids)] ELSE EmptyMap)

update_actor_splits_replaces(m, store, A, ok) ==
    LET touched == {id \in DOMAIN m : fragment_ids(m[id]) \cap DOMAIN A # {}}
        staged == [id \in touched |->
                      [op |-> "Insert",
                       value |-> [m[id] EXCEPT !.actor_splits =
                                     collect_splits(A, SortedSeq(fragment_ids(m[id])))]]]
    IN  commit_meta([tree |-> m, staging |-> staged], store, ok, <<>>)

update_actor_splits_in_memory(m, store, A, ok) ==
    LET touched == {id \in DOMAIN m : fragment_ids(m[id]) \cap DOMAIN A # {}}
        staged == [id \in touched |->
                      [op |-> "Insert",
                       value |-> [m[id] EXCEPT !.actor_splits =
                                     collect_splits(A, SortedSeq(fragment_ids(m[id]))) @@ @]]]
    IN  Outcome("ok", "", ApplyStaging(m, staged), store, <<>>)

update_actor_splits_by_split_assignment(m, store, A, ok) ==
    LET touched == {id \in DOMAIN m : fragment_ids(m[id]) \cap DOMAIN A # {}}
        staged == [id \in touched |->
                      [op |-> "Insert",
                       value |-> [m[id] EXCEPT !.actor_splits =
                                     collect_splits(A, SortedSeq(fragment_ids(m[id]))) @@ @]]]
    IN  commit_meta([tree |-> m, staging |-> staged], store, ok, <<>>)

(***************************************************************************)
(* Placement and migration                                                 *)
(***************************************************************************)
update_vnode_mapping(tf, migrate_map) ==
    [tf EXCEPT !.fragments = [f \in DOMAIN tf.fragments |->
        IF tf.fragments[f].vnode_mapping = None THEN tf.fragments[f]
        ELSE [tf.fragments[f] EXCEPT !.vnode_mapping[1].data =
                 [i \in 1..Len(@) |->
                     IF @[i] \in DOMAIN migrate_map THEN migrate_map[@[i]].id ELSE @[i]]]]]

migrate_actor_no_reuse(st, actor_id, migrate_map) ==
    IF st.panic \/ actor_id \notin DOMAIN migrate_map THEN st
    ELSE LET status == st.tf.actor_status[actor_id]
             old == status.parallel_unit
             w == migrate_map[actor_id]
         IN  IF old = None THEN st
             ELSE IF w \notin DOMAIN st.pools \/ st.pools[w] = <<>>
             THEN [st EXCEPT !.flag = TRUE, !.panic = TRUE]
             ELSE LET new == st.pools[w][Len(st.pools[w])]
                  IN  [st EXCEPT !.flag = TRUE,
                                 !.pmm = (old[1].id :> new) @@ @,
                                 !.pools[w] = SubSeq(@, 1, Len(@) - 1),
                                 !.tf.actor_status[actor_id].parallel_unit = Some(new)]

migrate_actor_keeps_on_empty(st, actor_id, migrate_map) ==
    IF st.panic \/ actor_id \notin DOMAIN migrate_map THEN st
    ELSE LET status == st.tf.actor_status[actor_id]
             old == status.parallel_unit
             w == migrate_map[actor_id]
         IN  IF old = None THEN st
             ELSE IF old[1].id \in DOMAIN st.pmm
             THEN [st EXCEPT !.flag = TRUE,
                             !.tf.actor_status[actor_id].parallel_unit =
                                 Some(st.pmm[old[1].id])]
             ELSE IF w \notin DOMAIN st.pools \/ st.pools[w] = <<>>
             THEN st
             ELSE LET new == st.pools[w][Len(st.pools[w])]
                  IN  [st EXCEPT !.flag = TRUE,
                                 !.pmm = (old[1].id :> new) @@ @,
                                 !.pools[w] = SubSeq(@, 1, Len(@) - 1),
                                 !.tf.actor_status[actor_id].parallel_unit = Some(new)]

\* one actor_status entry of the loop of migrate_actors.  st: the migrate map so
\* far, the free parallel units per worker, the job being edited, its flag, and
\* whether an unwrap() has panicked.
migrate_actor_no_pop(st, actor_id, migrate_map) ==
    IF st.panic \/ actor_id \notin DOMAIN migrate_map THEN st
    ELSE LET status == st.tf.actor_status[actor_id]
             old == status.parallel_unit
             w == migrate_map[actor_id]
         IN  IF old = None THEN st
             ELSE IF old[1].id \in DOMAIN st.pmm
             THEN [st EXCEPT !.flag = TRUE,
                             !.tf.actor_status[actor_id].parallel_unit =
                                 Some(st.pmm[old[1].id])]
             ELSE IF w \notin DOMAIN st.pools \/ st.pools[w] = <<>>
             THEN [st EXCEPT !.flag = TRUE, !.panic = TRUE]
             ELSE LET new == st.pools[w][Len(st.pools[w])]
                  IN  [st EXCEPT !.flag = TRUE,
                                 !.pmm = (old[1].id :> new) @@ @,
                                 !.tf.actor_status[actor_id].parallel_unit = Some(new)]

migrate_actor(st, actor_id, migrate_map) ==
    IF st.panic \/ actor_id \notin DOMAIN migrate_map THEN st
    ELSE LET status == st.tf.actor_status[actor_id]
             old == status.parallel_unit
             w == migrate_map[actor_id]
         IN  IF old = None THEN st
             ELSE IF old[1].id \in DOMAIN st.pmm
             THEN [st EXCEPT !.flag = TRUE,
                             !.tf.actor_status[actor_id].parallel_unit =
                                 Some(st.pmm[old[1].id])]
             ELSE IF w \notin DOMAIN st.pools \/ st.pools[w] = <<>>
             THEN [st EXCEPT !.flag = TRUE, !.panic = TRUE]
             ELSE LET new == st.pools[w][Len(st.pools[w])]
                  IN  [st EXCEPT !.flag = TRUE,
                                 !.pmm = (old[1].id :> new) @@ @,
                                 !.pools[w] = SubSeq(@, 1, Len(@) - 1),
                                 !.tf.actor_status[actor_id].parallel_unit = Some(new)]

RECURSIVE migrate_job(_, _, _)
migrate_job(st, actors, migrate_map) ==
    IF actors = <<>> THEN st
    ELSE migrate_job(migrate_actor(st, Head(actors), migrate_map), Tail(actors), migrate_map)

RECURSIVE migrate_jobs_pushes_all(_, _, _, _)
migrate_jobs_pushes_all(acc, m, ids, migrate_map) ==
    IF ids = <<>> \/ acc.panic THEN acc
    ELSE LET st == migrate_job([pmm |-> acc.pmm, pools |-> acc.pools, tf |-> m[Head(ids)],
                                flag |-> FALSE, panic |-> FALSE],
                               SortedSeq(DOMAIN m[Head(ids)].actor_status), migrate_map)
         IN  migrate_jobs_pushes_all(
                 [pmm |-> st.pmm, pools |-> st.pools, panic |-> st.panic,
                  new_fragments |->
                     IF ~st.panic
                     THEN Append(acc.new_fragments, update_vnode_mapping(st.tf, st.pmm))
                     ELSE acc.new_fragments],
                 m, Tail(ids), migrate_map)

RECURSIVE migrate_jobs(_, _, _, _)
\* the loop over the listed jobs; acc: migrate map, pools, new_fragments, panic
migrate_jobs(acc, m, ids, migrate_map) ==
    IF ids = <<>> \/ acc.panic THEN acc
    ELSE LET st == migrate_job([pmm |-> acc.pmm, pools |-> acc.pools, tf |-> m[Head(ids)],
                                flag |-> FALSE, panic |-> FALSE],
                               SortedSeq(DOMAIN m[Head(ids)].actor_status), migrate_map)
         IN  migrate_jobs(
                 [pmm |-> st.pmm, pools |-> st.pools, panic |-> st.panic,
                  new_fragments |->
                     IF st.flag /\ ~st.panic
                     THEN Append(acc.new_fragments, update_vnode_mapping(st.tf, st.pmm))
                     ELSE acc.new_fragments],
                 m, Tail(ids), migrate_map)

\* migrate_actors up to its call of batch_update_table_fragments: the jobs are
\* read by list_table_fragments, under a read guard of their own
migrate_actors_new_fragments(m, migrate_map, node_map) ==
    migrate_jobs([pmm |-> EmptyMap,
                  pools |-> [w \in DOMAIN node_map |-> node_map[w].parallel_units],
                  panic |-> FALSE, new_fragments |-> <<>>],
                 m, SortedSeq(DOMAIN m), migrate_map)

(***************************************************************************)
(* Reschedule engine                                                       *)
(***************************************************************************)
\* the actors of one fragment that pre_apply_reschedules pushes, by actor id
new_actors_of(created_f) ==
    LET ids == SortedSeq(DOMAIN created_f)
    IN  [i \in 1..Len(ids) |-> created_f[ids[i]].actor]

RECURSIVE pre_apply_fragments_keeps_entry(_, _, _)
\* a pre_apply that reads the entry of created_actors and leaves it for the
\* next job with that fragment id
pre_apply_fragments_keeps_entry(st, fids, created) ==
    IF fids = <<>> THEN st
    ELSE LET f == Head(fids)
         IN  IF f \notin st.left THEN pre_apply_fragments_keeps_entry(st, Tail(fids), created)
             ELSE pre_apply_fragments_keeps_entry(
                      [tf |-> [st.tf EXCEPT
                                  !.fragments[f].actors = @ \o new_actors_of(created[f]),
                                  !.actor_status =
                                      [a \in DOMAIN created[f] |-> created[f][a].status] @@ @],
                       left |-> st.left,
                       applied |-> (f :> DOMAIN created[f]) @@ st.applied],
                      Tail(fids), created)

RECURSIVE pre_apply_fragments_no_status(_, _, _)
\* a pre_apply that puts the created actors into the fragments only
pre_apply_fragments_no_status(st, fids, created) ==
    IF fids = <<>> THEN st
    ELSE LET f == Head(fids)
         IN  IF f \notin st.left THEN pre_apply_fragments_no_status(st, Tail(fids), created)
             ELSE pre_apply_fragments_no_status(
                      [tf |-> [st.tf EXCEPT
                                  !.fragments[f].actors = @ \o new_actors_of(created[f])],
                       left |-> st.left \ {f},
                       applied |-> (f :> DOMAIN created[f]) @@ st.applied],
                      Tail(fids), created)

RECURSIVE pre_apply_fragments(_, _, _)
\* one job of pre_apply_reschedules; st: the job, the entries of created_actors
\* not yet taken, the ledger
pre_apply_fragments(st, fids, created) ==
    IF fids = <<>> THEN st
    ELSE LET f == Head(fids)
         IN  IF f \notin st.left THEN pre_apply_fragments(st, Tail(fids), created)
             ELSE pre_apply_fragments(
                      [tf |-> [st.tf EXCEPT
                                  !.fragments[f].actors = @ \o new_actors_of(created[f]),
                                  !.actor_status =
                                      [a \in DOMAIN created[f] |-> created[f][a].status] @@ @],
                       left |-> st.left \ {f},
                       applied |-> (f :> DOMAIN created[f]) @@ st.applied],
                      Tail(fids), created)

RECURSIVE pre_apply_jobs(_, _, _)
pre_apply_jobs(acc, ids, created) ==
    IF ids = <<>> THEN acc
    ELSE LET st == pre_apply_fragments(
                       [tf |-> acc.map[Head(ids)], left |-> acc.left, applied |-> acc.applied],
                       SortedSeq(fragment_ids(acc.map[Head(ids)])), created)
         IN  pre_apply_jobs([map |-> [acc.map EXCEPT ![Head(ids)] = st.tf],
                             left |-> st.left, applied |-> st.applied],
                            Tail(ids), created)

\* pre_apply_reschedules: edits the live map in place, commits nothing, and
\* returns the ledger of the actors it added
pre_apply_reschedules(m, created) ==
    pre_apply_jobs([map |-> m, left |-> DOMAIN created, applied |-> EmptyMap],
                   SortedSeq(DOMAIN m), created)

\* a cancel that takes the actors back out of the fragments only
cancel_apply_job_keeps_status(tf, applied) ==
    [tf EXCEPT
        !.fragments = [f \in DOMAIN tf.fragments |->
            IF f \in DOMAIN applied
            THEN [tf.fragments[f] EXCEPT !.actors =
                     SelectSeq(@, LAMBDA a : a.actor_id \notin applied[f])]
            ELSE tf.fragments[f]]]

cancel_apply_job(tf, applied) ==
    LET gone == UNION {applied[f] : f \in DOMAIN applied \cap fragment_ids(tf)}
    IN  [tf EXCEPT
            !.actor_status = [a \in DOMAIN tf.actor_status \ gone |-> tf.actor_status[a]],
            !.fragments = [f \in DOMAIN tf.fragments |->
                IF f \in DOMAIN applied
                THEN [tf.fragments[f] EXCEPT !.actors =
                         SelectSeq(@, LAMBDA a : a.actor_id \notin applied[f])]
                ELSE tf.fragments[f]]]

\* cancel_apply_reschedules: undoes pre_apply_reschedules in the live map
cancel_apply_reschedules(m, applied) ==
    [id \in DOMAIN m |-> cancel_apply_job(m[id], applied)]

\* the assertions of update_actors
update_actors_asserts(actors, to_remove, to_create) ==
    /\ \A i \in 1..Len(to_create) : to_create[i] \notin SeqToSet(actors)
    /\ to_remove \subseteq SeqToSet(actors)

\* an update that removes nothing
update_actors_adds_only(actors, to_remove, to_create) ==
    actors \o to_create

\* an update that removes and adds nothing
update_actors_removes_only(actors, to_remove, to_create) ==
    SelectSeqNotIn(actors, to_remove)

update_actors(actors, to_remove, to_create) ==
    SelectSeqNotIn(actors, to_remove) \o to_create

RECURSIVE merge_node_asserts(_, _, _, _)
merge_node_asserts(node, fid, to_remove, to_create) ==
    /\ (node.body = "Merge" /\ node.upstream_fragment_id = fid)
          => update_actors_asserts(node.upstream_actor_id, to_remove, to_create)
    /\ \A i \in 1..Len(node.input) :
          merge_node_asserts(node.input[i], fid, to_remove, to_create)

RECURSIVE update_merge_node_upstream(_, _, _, _)
update_merge_node_upstream(node, fid, to_remove, to_create) ==
    [node EXCEPT
        !.upstream_actor_id =
            IF node.body = "Merge" /\ node.upstream_fragment_id = fid
            THEN update_actors(@, to_remove, to_create) ELSE @,
        !.input = [i \in 1..Len(node.input) |->
                      update_merge_node_upstream(node.input[i], fid, to_remove, to_create)]]

actor_mapping_to_parallel_unit_mapping(fid, actor_to_parallel_unit, actor_mapping) ==
    ParallelUnitMapping(fid, actor_mapping.original_indices,
        [i \in 1..Len(actor_mapping.data) |-> actor_to_parallel_unit[actor_mapping.data[i]]])

RECURSIVE update_upstream_dispatchers(_, _, _, _, _)
\* "Update the dispatcher of the upstream fragments"; st: the job, panicked
update_upstream_dispatchers(st, pairs, r, removed, new_created) ==
    IF pairs = <<>> \/ st.panic THEN st
    ELSE LET ufid == Head(pairs)[1]
             did == Head(pairs)[2]
         IN  IF ufid \notin DOMAIN st.tf.fragments THEN [st EXCEPT !.panic = TRUE]
             ELSE LET actors == st.tf.fragments[ufid].actors
                      bad == \E i \in 1..Len(actors) :
                                /\ actors[i].actor_id \notin new_created
                                /\ \E j \in 1..Len(actors[i].dispatcher) :
                                      /\ actors[i].dispatcher[j].dispatcher_id = did
                                      /\ ~update_actors_asserts(
                                              actors[i].dispatcher[j].downstream_actor_id,
                                              removed, r.added_actors)
                      patched == [i \in 1..Len(actors) |->
                          IF actors[i].actor_id \in new_created THEN actors[i]
                          ELSE [actors[i] EXCEPT !.dispatcher = [j \in 1..Len(@) |->
                                   IF @[j].dispatcher_id = did
                                   THEN [@[j] EXCEPT
                                            !.hash_mapping = r.upstream_dispatcher_mapping,
                                            !.downstream_actor_id =
                                                update_actors(@, removed, r.added_actors)]
                                   ELSE @[j]]]]
                  IN  update_upstream_dispatchers(
                          [tf |-> [st.tf EXCEPT !.fragments[ufid].actors = patched],
                           panic |-> bad],
                          Tail(pairs), r, removed, new_created)

\* "Update the merge executor of the downstream fragment"
update_downstream_merges(st, fid, r, removed, new_created) ==
    IF st.panic \/ r.downstream_fragment_id = None THEN st
    ELSE LET dfid == r.downstream_fragment_id[1]
         IN  IF dfid \notin DOMAIN st.tf.fragments THEN [st EXCEPT !.panic = TRUE]
             ELSE LET actors == st.tf.fragments[dfid].actors
                      bad == \E i \in 1..Len(actors) :
                                /\ actors[i].actor_id \notin new_created
                                /\ \/ ~update_actors_asserts(actors[i].upstream_actor_id,
                                                             removed, r.added_actors)
                                   \/ /\ actors[i].nodes # None
                                      /\ ~merge_node_asserts(actors[i].nodes[1], fid,
                                                             removed, r.added_actors)
                      patched == [i \in 1..Len(actors) |->
                          IF actors[i].actor_id \in new_created THEN actors[i]
                          ELSE [actors[i] EXCEPT
                                   !.upstream_actor_id =
                                       update_actors(@, removed, r.added_actors),
                                   !.nodes = IF @ = None THEN None
                                             ELSE Some(update_merge_node_upstream(
                                                      @[1], fid, removed, r.added_actors))]]
                  IN  [tf |-> [st.tf EXCEPT !.fragments[dfid].actors = patched],
                       panic |-> bad]

\* the body of the loop over the reschedules of one job, for fragment fid
apply_reschedule(tf, fid, r, new_created) ==
    LET added == SeqToSet(r.added_actors)
        removed == SeqToSet(r.removed_actors)
        unknown == ~(added \subseteq DOMAIN tf.actor_status)
        actor_status == [a \in DOMAIN tf.actor_status \ removed |->
                            IF a \in added
                            THEN [tf.actor_status[a] EXCEPT !.state = "Running"]
                            ELSE tf.actor_status[a]]
        actor_splits == r.actor_splits
                        @@ [a \in DOMAIN tf.actor_splits \ removed |-> tf.actor_splits[a]]
        fragment == tf.fragments[fid]
        with_bitmaps == [i \in 1..Len(fragment.actors) |->
                            IF fragment.actors[i].actor_id \in DOMAIN r.vnode_bitmap_updates
                            THEN [fragment.actors[i] EXCEPT !.vnode_bitmap =
                                     Some(r.vnode_bitmap_updates[fragment.actors[i].actor_id])]
                            ELSE fragment.actors[i]]
        actors == SelectSeq(with_bitmaps, LAMBDA a : a.actor_id \notin removed)
        actor_to_parallel_unit ==
            [a \in {actors[i].actor_id : i \in
                       {j \in 1..Len(actors) :
                           /\ actors[j].actor_id \in DOMAIN actor_status
                           /\ actor_status[actors[j].actor_id].parallel_unit # None}}
               |-> actor_status[a].parallel_unit[1].id]
        remap == fragment.vnode_mapping # None /\ r.upstream_dispatcher_mapping # None
        unmapped == remap /\ \E i \in 1..Len(r.upstream_dispatcher_mapping[1].data) :
                        r.upstream_dispatcher_mapping[1].data[i]
                            \notin DOMAIN actor_to_parallel_unit
        vnode_mapping ==
            IF remap /\ ~unmapped
            THEN Some(actor_mapping_to_parallel_unit_mapping(
                          fid, actor_to_parallel_unit, r.upstream_dispatcher_mapping[1]))
            ELSE fragment.vnode_mapping
        notifs == IF vnode_mapping # None /\ fragment.state_table_ids # {}
                  THEN <<Notification("Update",
                             [vnode_mapping[1] EXCEPT !.fragment_id = fragment.fragment_id])>>
                  ELSE <<>>
        tf1 == [tf EXCEPT !.actor_status = actor_status,
                          !.actor_splits = actor_splits,
                          !.fragments[fid].actors = actors,
                          !.fragments[fid].vnode_mapping = vnode_mapping]
        up == update_upstream_dispatchers([tf |-> tf1, panic |-> unknown \/ unmapped],
                  r.upstream_fragment_dispatcher_ids, r, removed, new_created)
        down == update_downstream_merges(up, fid, r, removed, new_created)
    IN  [tf |-> down.tf, panic |-> down.panic, notifs |-> notifs]

apply_job_reschedules_first_only(st, fids, reschedules, new_created) ==
    IF fids = <<>> \/ st.panic THEN st
    ELSE LET r == apply_reschedule(st.tf, Head(fids), reschedules[Head(fids)], new_created)
         IN  [tf |-> r.tf, panic |-> r.panic, notifs |-> st.notifs \o r.notifs]

RECURSIVE apply_job_reschedules(_, _, _, _)
\* the reschedules drained for one job, in their iteration order
apply_job_reschedules(st, fids, reschedules, new_created) ==
    IF fids = <<>> \/ st.panic THEN st
    ELSE LET r == apply_reschedule(st.tf, Head(fids), reschedules[Head(fids)], new_created)
         IN  apply_job_reschedules(
                 [tf |-> r.tf, panic |-> r.panic, notifs |-> st.notifs \o r.notifs],
                 Tail(fids), reschedules, new_created)

RECURSIVE apply_reschedules(_, _, _, _, _)
\* the loop over to_update_table_fragments; acc: txn, reschedules left, notifs, panic
apply_reschedules(acc, ids, reschedules, order, new_created) ==
    IF ids = <<>> \/ acc.panic THEN acc
    ELSE LET tf == Txn_get(acc.txn, Head(ids))
             mine == SelectSeqIn(order, acc.left \cap fragment_ids(tf))
             st == apply_job_reschedules([tf |-> tf, panic |-> FALSE, notifs |-> <<>>],
                                         mine, reschedules, new_created)
         IN  apply_reschedules(
                 [txn |-> IF mine = <<>> THEN acc.txn
                          ELSE Txn_insert(acc.txn, Head(ids), st.tf),
                  left |-> acc.left \ SeqToSet(mine),
                  notifs |-> acc.notifs \o st.notifs,
                  panic |-> st.panic],
                 Tail(ids), reschedules, order, new_created)

\* a post_apply_reschedules that commits the matched plans and lets the others go
post_apply_reschedules_drops_unmatched(m, store, reschedules, order, ok) ==
    LET new_created == UNION {SeqToSet(reschedules[f].added_actors) : f \in DOMAIN reschedules}
        to_update == SelectSeq(SortedSeq(DOMAIN m),
                         LAMBDA id : fragment_ids(m[id]) \cap DOMAIN reschedules # {})
        acc == apply_reschedules([txn |-> BTreeMapTransaction_new(m),
                                  left |-> DOMAIN reschedules, notifs |-> <<>>,
                                  panic |-> FALSE],
                                 to_update, reschedules, order, new_created)
    IN  IF acc.panic THEN Outcome("panic", "unwrap or assert", m, store, <<>>)
        ELSE commit_meta(acc.txn, store, ok, acc.notifs)

\* order: the fragment ids of reschedules in the iteration order of the HashMap
post_apply_reschedules_notifies_old_mapping(m, store, reschedules, order, ok) ==
    LET new_created == UNION {SeqToSet(reschedules[f].added_actors) : f \in DOMAIN reschedules}
        to_update == SelectSeq(SortedSeq(DOMAIN m),
                         LAMBDA id : fragment_ids(m[id]) \cap DOMAIN reschedules # {})
        acc == apply_reschedules([txn |-> BTreeMapTransaction_new(m),
                                  left |-> DOMAIN reschedules, notifs |-> <<>>,
                                  panic |-> FALSE],
                                 to_update, reschedules, order, new_created)
        before(f) == LET id == CHOOSE id \in DOMAIN m : f \in fragment_ids(m[id])
                     IN  m[id].fragments[f].vnode_mapping[1]
    IN  IF acc.panic THEN Outcome("panic", "unwrap or assert", m, store, <<>>)
        ELSE IF acc.left # {}
        THEN Outcome("panic", "all reschedules must be applied", m, store, <<>>)
        ELSE commit_meta(acc.txn, store, ok,
                         [i \in 1..Len(acc.notifs) |->
                             Notification("Update", before(acc.notifs[i].fragment_id))])

post_apply_reschedules(m, store, reschedules, order, ok) ==
    LET new_created == UNION {SeqToSet(reschedules[f].added_actors) : f \in DOMAIN reschedules}
        to_update == SelectSeq(SortedSeq(DOMAIN m),
                         LAMBDA id : fragment_ids(m[id]) \cap DOMAIN reschedules # {})
        acc == apply_reschedules([txn |-> BTreeMapTransaction_new(m),
                                  left |-> DOMAIN reschedules, notifs |-> <<>>,
                                  panic |-> FALSE],
                                 to_update, reschedules, order, new_created)
    IN  IF acc.panic THEN Outcome("panic", "unwrap or assert", m, store, <<>>)
        ELSE IF acc.left # {}
        THEN Outcome("panic", "all reschedules must be applied", m, store, <<>>)
        ELSE commit_meta(acc.txn, store, ok, acc.notifs)

(***************************************************************************)
(* Inputs: the jobs the Barrier Coordinator creates, and call arguments    *)
(***************************************************************************)
\* job 1: source fragment 10 -> fragment 11 (stateful, two actors) -> sink fragment 12
TF1 ==
    [table_id |-> 1, state |-> "Creating",
     fragments |->
        (10 :> Fragment(10, "Source",
                  <<StreamActor(100, <<Dispatcher(1, <<110, 111>>, Some(ActorMapping(<<1, 3>>, <<110, 111>>)))>>,
                                <<>>, OtherNode(<<>>))>>,
                  Some(ParallelUnitMapping(10, <<3>>, <<1>>)), {}, {}))
        @@ (11 :> Fragment(11, "Internal",
                  <<StreamActor(110, <<Dispatcher(2, <<120>>, None)>>, <<100>>,
                                OtherNode(<<MergeNode(10, <<100>>)>>)),
                    StreamActor(111, <<Dispatcher(2, <<120>>, None)>>, <<100>>,
                                OtherNode(<<MergeNode(10, <<100>>)>>))>>,
                  Some(ParallelUnitMapping(11, <<1, 3>>, <<1, 2>>)), {1011}, {}))
        @@ (12 :> Fragment(12, "Sink",
                  <<StreamActor(120, <<>>, <<110, 111>>,
                                OtherNode(<<MergeNode(11, <<110, 111>>)>>))>>,
                  Some(ParallelUnitMapping(12, <<3>>, <<1>>)), {1012}, {})),
     actor_status |->
        (100 :> Inactive(ParallelUnit(1, 1))) @@ (110 :> Inactive(ParallelUnit(1, 1)))
        @@ (111 :> Inactive(ParallelUnit(2, 1))) @@ (120 :> Inactive(ParallelUnit(1, 1))),
     actor_splits |-> EmptyMap]

\* job 2: a materialized view on job 1 (chain fragment 20 reads job 1's sink)
TF2 ==
    [table_id |-> 2, state |-> "Creating",
     fragments |->
        (20 :> Fragment(20, "Chain",
                  <<StreamActor(200, <<>>, <<120>>, OtherNode(<<MergeNode(12, <<120>>)>>))>>,
                  Some(ParallelUnitMapping(20, <<3>>, <<2>>)), {1020}, {1})),
     actor_status |-> (200 :> Inactive(ParallelUnit(2, 1))),
     actor_splits |-> EmptyMap]

\* another job submitted under id 2 (a job on a dropped upstream, job 3)
TF2b ==
    [table_id |-> 2, state |-> "Creating",
     fragments |->
        (21 :> Fragment(21, "Chain",
                  <<StreamActor(210, <<>>, <<>>, OtherNode(<<>>))>>,
                  None, {}, {3})),
     actor_status |-> (210 :> Inactive(ParallelUnit(1, 1))),
     actor_splits |-> EmptyMap]

JobTemplates == {TF1, TF2, TF2b}

TableIds == {1, 2, 3}

\* dispatchers spliced into job 1's sink actor when job 2 is created
PatchTo200 == (120 :> <<Dispatcher(3, <<200>>, None)>>)

PostCreateArgs(id, deps, split) == [id |-> id, deps |-> deps, split |-> split]

\* post_create calls: on job 1 and job 2, with and without the dispatcher patch
\* for job 1, with a patch for the absent job 3, and on the absent job 3
PostCreateInputs ==
    {PostCreateArgs(1, <<>>, EmptyMap),
     PostCreateArgs(1, <<>>, (10 :> (100 :> <<"s2">>))),
     PostCreateArgs(2, <<>>, EmptyMap),
     PostCreateArgs(2, <<<<1, PatchTo200>>>>, EmptyMap),
     PostCreateArgs(2, <<<<1, PatchTo200>>>>, (20 :> (200 :> <<"s1">>))),
     PostCreateArgs(2, <<<<1, PatchTo200>>, <<3, PatchTo200>>>>, (20 :> (200 :> <<"s1">>))),
     PostCreateArgs(3, <<>>, EmptyMap)}

(***************************************************************************)
(* Inputs of the other operations                                          *)
(***************************************************************************)
\* the table_ids sets of drop_table_fragments_vec, in an iteration order
DropInputs == {<<1>>, <<2>>, <<1, 2>>, <<2, 1>>, <<3>>}

\* workers 1 and 2 with two parallel units each
NodeMap ==
    (1 :> [id |-> 1, parallel_units |-> <<ParallelUnit(1, 1), ParallelUnit(2, 1)>>])
    @@ (2 :> [id |-> 2, parallel_units |-> <<ParallelUnit(3, 2), ParallelUnit(4, 2)>>])
    @@ (3 :> [id |-> 3, parallel_units |-> <<ParallelUnit(5, 3)>>])

\* migrate_map arguments: move job 1's actors of parallel unit 2, or job 2's
\* actor, to worker 2
MigrateInputs == {(111 :> 2), (200 :> 2), (111 :> 2) @@ (200 :> 2)}

UpdateSplitInputs == {(10 :> (100 :> <<"s3">>)), (20 :> (200 :> <<"s4">>))}

\* the actor that scales fragment 11 out, as built by the coordinator: in its
\* final state, with the bitmap the plan assigns to it
Actor112 ==
    [actor |-> [StreamActor(112, <<Dispatcher(2, <<120>>, None)>>, <<100>>,
                            OtherNode(<<MergeNode(10, <<100>>)>>))
                   EXCEPT !.vnode_bitmap = Some("b112")],
     status |-> Inactive(ParallelUnit(3, 2))]

CreatedInputs == {(11 :> (112 :> Actor112))}

LedgerInputs == {(11 :> {112})}

Reschedule(added, removed, bitmaps, upstream, mapping, downstream, splits) ==
    [added_actors |-> added, removed_actors |-> removed,
     vnode_bitmap_updates |-> bitmaps, upstream_fragment_dispatcher_ids |-> upstream,
     upstream_dispatcher_mapping |-> mapping, downstream_fragment_id |-> downstream,
     actor_splits |-> splits]

ScaleOut11 ==
    Reschedule(<<112>>, <<>>, (110 :> "b110") @@ (112 :> "b112"), <<<<10, 1>>>>,
               Some(ActorMapping(<<0, 1, 3>>, <<110, 111, 112>>)), Some(12),
               (112 :> <<"s5">>))

ScaleIn11 ==
    Reschedule(<<>>, <<111>>, (110 :> "b110all"), <<<<10, 1>>>>,
               Some(ActorMapping(<<3>>, <<110>>)), Some(12), EmptyMap)

NoChange ==
    Reschedule(<<>>, <<>>, EmptyMap, <<>>, None, None, EmptyMap)

RescheduleInputs ==
    {(11 :> ScaleOut11), (11 :> ScaleIn11), (11 :> ScaleIn11) @@ (99 :> NoChange)}

\* the iteration orders of a set
Orders(S) == {o \in [1..Cardinality(S) -> S] : SeqToSet(o) = S}

AllActorIds(m) == UNION {actor_ids(m[id]) \cup DOMAIN m[id].actor_status : id \in DOMAIN m}

(***************************************************************************)
(* Actions: one per public operation.  Every operation holds the write     *)
(* guard of core from its first line to its return, so each is one step;   *)
(* migrate_actors is two: list_table_fragments, then                       *)
(* batch_update_table_fragments.                                           *)
(***************************************************************************)
DispatchersBounded(m) ==
    \A id \in DOMAIN m : \A f \in DOMAIN m[id].fragments :
        \A i \in 1..Len(m[id].fragments[f].actors) :
            Len(m[id].fragments[f].actors[i].dispatcher) <= MaxDispatchers

Call(op, id, arg, ok, r) ==
    [op |-> op, id |-> id, arg |-> arg, ok |-> ok, res |-> r.res, msg |-> r.msg,
     notifs |-> r.notifs]

Complete(op, id, arg, ok, r) ==
    /\ table_fragments' = r.map
    /\ meta_store' = r.store
    /\ last' = Call(op, id, arg, ok, r)
    /\ UNCHANGED <<lock, call>>

StartCreate(Jobs) ==
    \E tf \in Jobs, ok \in BOOLEAN :
        /\ Complete("start_create", tf.table_id, tf, ok,
                    start_create_table_fragments(table_fragments, meta_store, tf, ok))
        /\ UNCHANGED migrating

CancelCreate(Ids) ==
    \E id \in Ids, ok \in BOOLEAN :
        /\ Complete("cancel_create", id, {}, ok,
                    cancel_create_table_fragments(table_fragments, meta_store, id, ok))
        /\ UNCHANGED migrating

PostCreate(Inputs) ==
    \E a \in Inputs, ok \in BOOLEAN :
        LET r == post_create_table_fragments(table_fragments, meta_store,
                                             a.id, a.deps, a.split, ok)
        IN  /\ DispatchersBounded(r.map)
            /\ Complete("post_create", a.id, a, ok, r)
            /\ UNCHANGED migrating

MarkCreated(Ids) ==
    \E id \in Ids, ok \in BOOLEAN :
        /\ Complete("mark_created", id, {}, ok,
                    mark_table_fragments_created(table_fragments, meta_store, id, ok))
        /\ UNCHANGED migrating

DropTableFragments(Inputs) ==
    \E ids \in Inputs, ok \in BOOLEAN :
        /\ Complete("drop", 0, ids, ok,
                    drop_table_fragments_vec(table_fragments, meta_store, ids, ok))
        /\ UNCHANGED migrating

BatchUpdate(Inputs) ==
    \E tfs \in Inputs, ok \in BOOLEAN :
        /\ Complete("batch_update", 0, tfs, ok,
                    batch_update_table_fragments(table_fragments, meta_store, tfs, ok))
        /\ UNCHANGED migrating

UpdateActorSplits(Inputs) ==
    \E A \in Inputs, ok \in BOOLEAN :
        /\ Complete("update_actor_splits", 0, A, ok,
                    update_actor_splits_by_split_assignment(table_fragments, meta_store,
                                                            A, ok))
        /\ UNCHANGED migrating

\* migrate_actors, first part: list_table_fragments and the loop over the clones
MigrateList(Inputs) ==
    \E migrate_map \in Inputs :
        LET acc == migrate_actors_new_fragments(table_fragments, migrate_map, NodeMap)
        IN  /\ migrating = None
            /\ IF acc.panic
               THEN /\ migrating' = None
                    /\ last' = Call("migrate_actors", 0, migrate_map, TRUE,
                                    Outcome("panic", "unwrap", table_fragments,
                                            meta_store, <<>>))
               ELSE /\ migrating' = Some([migrate_map |-> migrate_map,
                                          listed |-> table_fragments,
                                          new_fragments |-> acc.new_fragments])
                    /\ last' = Call("list_table_fragments", 0, migrate_map, TRUE,
                                    Outcome("ok", "", table_fragments, meta_store, <<>>))
            /\ UNCHANGED <<table_fragments, meta_store, lock, call>>

\* migrate_actors, second part: batch_update_table_fragments(&new_fragments)
MigrateUpdate ==
    \E ok \in BOOLEAN :
        /\ migrating # None
        /\ Complete("migrate_actors", 0, migrating[1].migrate_map, ok,
                    batch_update_table_fragments(table_fragments, meta_store,
                                                 migrating[1].new_fragments, ok))
        /\ migrating' = None

PreApply(Inputs) ==
    \E created \in Inputs :
        LET r == pre_apply_reschedules(table_fragments, created)
        IN  /\ \A f \in DOMAIN created : DOMAIN created[f] \cap AllActorIds(table_fragments) = {}
            /\ Complete("pre_apply_reschedules", 0, r.applied, TRUE,
                        Outcome("ok", "", r.map, meta_store, <<>>))
            /\ UNCHANGED migrating

CancelApply(Inputs) ==
    \E applied \in Inputs :
        /\ Complete("cancel_apply_reschedules", 0, applied, TRUE,
                    Outcome("ok", "", cancel_apply_reschedules(table_fragments, applied),
                            meta_store, <<>>))
        /\ UNCHANGED migrating

PostApply(Inputs) ==
    \E reschedules \in Inputs, ok \in BOOLEAN :
        \E order \in Orders(DOMAIN reschedules) :
            /\ Complete("post_apply_reschedules", 0, reschedules, ok,
                        post_apply_reschedules(table_fragments, meta_store,
                                               reschedules, order, ok))
            /\ UNCHANGED migrating

NoCall ==
    [op |-> "new", id |-> 0, arg |-> {}, ok |-> TRUE, res |-> "ok", msg |-> "",
     notifs |-> <<>>]

\* FragmentManager::new on an empty Meta Store
Init ==
    /\ table_fragments = EmptyMap
    /\ meta_store = EmptyMap
    /\ last = NoCall
    /\ migrating = None
    /\ lock = "free"
    /\ call = [c \in Callers |-> Idle]

\* the lifecycle controller
Next ==
    \/ StartCreate(JobTemplates)
    \/ CancelCreate(TableIds)
    \/ PostCreate(PostCreateInputs)
    \/ MarkCreated(TableIds)

Spec == Init /\ [][Next]_vars

\* the committing operations, each with a store write that may fail
NextCommit ==
    \/ StartCreate({TF1, TF2})
    \/ CancelCreate({2})
    \/ PostCreate({PostCreateArgs(1, <<>>, EmptyMap),
                   PostCreateArgs(2, <<<<1, PatchTo200>>>>, (20 :> (200 :> <<"s1">>)))})
    \/ MarkCreated({1, 2})
    \/ DropTableFragments(DropInputs)
    \/ BatchUpdate({<<TF1>>})
    \/ UpdateActorSplits(UpdateSplitInputs)
    \/ PostApply({(11 :> ScaleIn11), (11 :> ScaleIn11) @@ (99 :> NoChange)})

SpecCommit == Init /\ [][NextCommit]_vars

\* a job submitted under id 2 that reads job 1 and the absent job 3
TF2c ==
    [table_id |-> 2, state |-> "Creating",
     fragments |->
        (22 :> Fragment(22, "Chain",
                  <<StreamActor(220, <<>>, <<120>>, OtherNode(<<MergeNode(12, <<120>>)>>))>>,
                  Some(ParallelUnitMapping(22, <<3>>, <<2>>)), {1022}, {1, 3})),
     actor_status |-> (220 :> Inactive(ParallelUnit(2, 1))),
     actor_splits |-> EmptyMap]

\* dispatchers spliced into job 1's sink actor for TF2c's chain actor
PatchTo220 == (120 :> <<Dispatcher(3, <<220>>, None)>>)

\* dispatchers to job 2's chain actor spliced into an actor of job 1's Internal
\* fragment
PatchInternalTo200 == (110 :> <<Dispatcher(4, <<200>>, None)>>)

\* a dispatcher to job 2's chain actor and to actor 300 spliced into job 1's sink
PatchTo200And300 == (120 :> <<Dispatcher(5, <<200, 300>>, None)>>)

\* the drop path: jobs on job 1 are created, wired into job 1 and dropped
NextDrop ==
    \/ StartCreate({TF1, TF2, TF2c})
    \/ PostCreate({PostCreateArgs(1, <<>>, EmptyMap),
                   PostCreateArgs(2, <<<<1, PatchTo200>>>>, EmptyMap),
                   PostCreateArgs(2, <<<<1, PatchTo220>>>>, EmptyMap),
                   PostCreateArgs(2, <<<<1, PatchTo200And300>>>>, EmptyMap),
                   PostCreateArgs(2, <<<<1, PatchInternalTo200>>>>, EmptyMap)})
    \/ MarkCreated({1, 2})
    \/ DropTableFragments(DropInputs \cup {<<2, 3>>})

SpecDrop == Init /\ [][NextDrop]_vars

\* job 1 with actor 111 on parallel unit 4 of worker 2
TF1Moved ==
    [TF1 EXCEPT !.actor_status[111].parallel_unit = Some(ParallelUnit(4, 2)),
                !.fragments[11].vnode_mapping = Some(ParallelUnitMapping(11, <<1, 3>>, <<1, 4>>))]

\* job 2 with its actor Running
TF2Running == [TF2 EXCEPT !.actor_status[200].state = "Running"]

\* a job under id 3, which no create call submits
TF3 == [TF2b EXCEPT !.table_id = 3]

BatchInputs == {<<TF1Moved>>, <<TF1Moved, TF2Running>>, <<TF1Moved, TF3>>, <<TF2Running, TF2>>}

\* migrate_map arguments of the placement runs: one actor; two actors of one old
\* parallel unit sent to two workers, across jobs and within job 1; two actors of
\* one old parallel unit sent to one worker; two old parallel units sent to the
\* worker with one parallel unit; a worker that is not in node_map
PlaceInputs ==
    {(111 :> 2),
     (111 :> 2) @@ (200 :> 3),
     (110 :> 2) @@ (120 :> 3),
     (100 :> 2) @@ (110 :> 2),
     (110 :> 3) @@ (111 :> 3),
     (110 :> 2) @@ (111 :> 2),
     (111 :> 9)}

\* placement: jobs are created and their actors migrated, again and again
NextPlace ==
    \/ StartCreate({TF1, TF2})
    \/ MigrateList(PlaceInputs)
    \/ MigrateUpdate

SpecPlace == Init /\ [][NextPlace]_vars

\* a second actor created for fragment 11, and one for the sink fragment 12
Actor113 ==
    [actor |-> StreamActor(113, <<Dispatcher(2, <<120>>, None)>>, <<100>>,
                           OtherNode(<<MergeNode(10, <<100>>)>>)),
     status |-> Inactive(ParallelUnit(4, 2))]

\* the actors of a batch that scales fragments 11 and 12 out together, built
\* with their final wiring and bitmaps
Actor112w ==
    [actor |-> [StreamActor(112, <<Dispatcher(2, <<120, 121>>,
                                      Some(ActorMapping(<<1, 3>>, <<120, 121>>)))>>,
                            <<100>>, OtherNode(<<MergeNode(10, <<100>>)>>))
                   EXCEPT !.vnode_bitmap = Some("b112")],
     status |-> Inactive(ParallelUnit(3, 2))]

Actor121 ==
    [actor |-> [StreamActor(121, <<>>, <<110, 111, 112>>,
                            OtherNode(<<MergeNode(11, <<110, 111, 112>>)>>))
                   EXCEPT !.vnode_bitmap = Some("b121")],
     status |-> Inactive(ParallelUnit(4, 2))]

CreatedBoth == (11 :> (112 :> Actor112w)) @@ (12 :> (121 :> Actor121))

ScaleOut12 ==
    Reschedule(<<121>>, <<>>, (120 :> "b120") @@ (121 :> "b121"), <<<<11, 2>>>>,
               Some(ActorMapping(<<1, 3>>, <<120, 121>>)), None, EmptyMap)

\* the batch that takes actors 112 and 121 out again
ScaleIn112 ==
    Reschedule(<<>>, <<112>>, (110 :> "b110half"), <<<<10, 1>>>>,
               Some(ActorMapping(<<1, 3>>, <<110, 111>>)), Some(12), EmptyMap)

ScaleIn121 ==
    Reschedule(<<>>, <<121>>, (120 :> "b120all"), <<<<11, 2>>>>,
               Some(ActorMapping(<<3>>, <<120>>)), None, EmptyMap)

\* the plans of the scaling runs; fragment 99 is in no job
ScalePlans ==
    {(11 :> ScaleOut11), (11 :> ScaleIn11), (11 :> ScaleOut11) @@ (12 :> ScaleOut12),
     (11 :> ScaleIn112) @@ (12 :> ScaleIn121),
     (11 :> ScaleIn11) @@ (99 :> NoChange), (99 :> NoChange),
     (10 :> NoChange) @@ (11 :> ScaleIn11)}

\* created_actors arguments of the scaling runs: one actor of fragment 11; two
\* actors of fragment 11; an actor for a fragment of no job besides
ScaleCreatedInputs ==
    {(11 :> (112 :> Actor112)),
     (11 :> ((112 :> Actor112) @@ (113 :> Actor113))),
     (11 :> (112 :> Actor112)) @@ (99 :> (113 :> Actor113))}

\* scaling: job 1 is created, actors are added to its fragments 11 and 12,
\* taken back, or the reschedule is applied
NextScale ==
    \/ StartCreate({TF1})
    \/ PreApply(ScaleCreatedInputs \cup {CreatedBoth})
    \/ CancelApply({(11 :> {112}), (11 :> {112, 113})})
    \/ PostApply(ScalePlans)

SpecScale == Init /\ [][NextScale]_vars

\* job 4: a job whose only fragment has the id of job 1's fragment 11
TF4 ==
    [table_id |-> 4, state |-> "Creating",
     fragments |->
        (11 :> Fragment(11, "Sink",
                  <<StreamActor(410, <<>>, <<>>, OtherNode(<<>>))>>,
                  Some(ParallelUnitMapping(11, <<3>>, <<2>>)), {1411}, {})),
     actor_status |-> (410 :> Inactive(ParallelUnit(2, 1))),
     actor_splits |-> EmptyMap]

\* the operations that edit actor lists and actor states, on job 1 and on job 4,
\* which has a fragment with the id of one of job 1
Select(Ids) ==
    \E id \in Ids :
        LET r == select_table_fragments_by_table_id(table_fragments, id)
        IN  /\ last' = [op |-> "select", id |-> id, arg |-> id, ok |-> TRUE,
                        res |-> r.res, msg |-> r.msg, notifs |-> <<>>,
                        value |-> r.value,
                        after |-> [op |-> last.op, res |-> last.res, msg |-> last.msg]]
            /\ UNCHANGED <<table_fragments, meta_store, migrating, lock, call>>

NextActors ==
    \/ StartCreate({TF1, TF4})
    \/ CancelCreate({4})
    \/ PostCreate({PostCreateArgs(1, <<>>, EmptyMap)})
    \/ MarkCreated({1})
    \/ DropTableFragments({<<1>>})
    \/ UpdateActorSplits({(10 :> (100 :> <<"s3">>))})
    \/ PreApply({(11 :> (112 :> Actor112))})
    \/ CancelApply({(11 :> {112})})
    \/ PostApply({(11 :> ScaleOut11), (11 :> ScaleIn11)})

SpecActors == Init /\ [][NextActors]_vars

\* the notifying operations and the read of one job
NextNotify ==
    \/ StartCreate({TF1, TF2})
    \/ PostCreate({PostCreateArgs(1, <<>>, EmptyMap),
                   PostCreateArgs(2, <<<<1, PatchTo200>>>>, EmptyMap)})
    \/ DropTableFragments({<<2>>, <<1, 2>>, <<2, 3>>})
    \/ BatchUpdate({<<TF1>>})
    \/ PostApply({(11 :> ScaleIn11)})
    \/ Select({1, 2, 3})

SpecNotify == Init /\ [][NextNotify]_vars

\* FragmentManager::new: the rows listed from the Meta Store, indexed by
\* their table id
FragmentManager_new(store) ==
    LET rows == {store[k] : k \in DOMAIN store}
    IN  [id \in {tf.table_id : tf \in rows} |-> CHOOSE tf \in rows : tf.table_id = id]

\* a restart: the manager is built again from the Meta Store
Rehydrate ==
    /\ table_fragments' = FragmentManager_new(meta_store)
    /\ last' = NoCall
    /\ UNCHANGED <<meta_store, migrating, lock, call>>

\* every committing operation but pre/cancel_apply_reschedules, and restarts
NextRehydrate ==
    \/ StartCreate({TF1, TF2})
    \/ CancelCreate({2})
    \/ PostCreate({PostCreateArgs(1, <<>>, EmptyMap),
                   PostCreateArgs(2, <<<<1, PatchTo200>>>>, (20 :> (200 :> <<"s1">>)))})
    \/ MarkCreated({1, 2})
    \/ DropTableFragments({<<2>>, <<1, 2>>, <<3>>})
    \/ BatchUpdate({<<TF1>>})
    \/ UpdateActorSplits({(10 :> (100 :> <<"s3">>))})
    \/ PostApply({(11 :> ScaleIn11)})
    \/ Rehydrate

SpecRehydrate == Init /\ [][NextRehydrate]_vars

\* update_actor_splits_by_split_assignment called with an assignment whose
\* actors are, at the time of the call, actors of the fragment they are
\* listed under
UpdateSplitsOfActors(Inputs) ==
    \E A \in Inputs, ok \in BOOLEAN :
        /\ \A f \in DOMAIN A :
              \E id \in DOMAIN table_fragments :
                 /\ f \in fragment_ids(table_fragments[id])
                 /\ DOMAIN A[f] \subseteq {a.actor_id : a \in SeqToSet(table_fragments[id].fragments[f].actors)}
        /\ Complete("update_actor_splits", 0, A, ok,
                    update_actor_splits_by_split_assignment(table_fragments, meta_store,
                                                            A, ok))
        /\ UNCHANGED migrating

SplitInputs ==
    {(10 :> (100 :> <<"s3">>)),
     (11 :> (110 :> <<"s4">>)),
     (11 :> (112 :> <<"s6">>)),
     (10 :> (100 :> <<"s1">>)) @@ (11 :> (111 :> <<"s4">>)),
     (20 :> (200 :> <<"s7">>))}

\* split assignments next to the operations that add and remove actors
NextSplits ==
    \/ StartCreate({TF1, TF2})
    \/ PostCreate({PostCreateArgs(1, <<>>, (10 :> (100 :> <<"s2">>)))})
    \/ UpdateSplitsOfActors(SplitInputs)
    \/ PreApply({(11 :> (112 :> Actor112))})
    \/ CancelApply({(11 :> {112})})
    \/ PostApply({(11 :> ScaleOut11), (11 :> ScaleIn11)})

SpecSplits == Init /\ [][NextSplits]_vars

\* a second job downstream of job 1
TF5 ==
    [table_id |-> 5, state |-> "Creating",
     fragments |->
        (50 :> Fragment(50, "Chain",
                  <<StreamActor(500, <<>>, <<120>>, OtherNode(<<MergeNode(12, <<120>>)>>))>>,
                  Some(ParallelUnitMapping(50, <<3>>, <<1>>)), {1050}, {1})),
     actor_status |-> (500 :> Inactive(ParallelUnit(1, 1))),
     actor_splits |-> EmptyMap]

PatchTo500And300 == (120 :> <<Dispatcher(6, <<500, 300>>, None)>>)

PatchTo200And500 == (120 :> <<Dispatcher(7, <<200, 500>>, None)>>)

\* two jobs downstream of job 1, dropped one by one or together
NextDropTwo ==
    \/ StartCreate({TF1, TF2, TF5})
    \/ PostCreate({PostCreateArgs(2, <<<<1, PatchTo200And300>>>>, EmptyMap),
                   PostCreateArgs(5, <<<<1, PatchTo500And300>>>>, EmptyMap),
                   PostCreateArgs(5, <<<<1, PatchTo200And500>>>>, EmptyMap)})
    \/ DropTableFragments({<<2>>, <<5>>, <<2, 5>>, <<5, 2>>})

SpecDropTwo == Init /\ [][NextDropTwo]_vars

\* the shells of a replacement of actor 111 by 112 and of actor 120 by 121
Actor112s ==
    [actor |-> [StreamActor(112, <<Dispatcher(2, <<121>>,
                                      Some(ActorMapping(<<3>>, <<121>>)))>>,
                            <<100>>, OtherNode(<<MergeNode(10, <<100>>)>>))
                   EXCEPT !.vnode_bitmap = Some("b112")],
     status |-> Inactive(ParallelUnit(3, 2))]

Actor121s ==
    [actor |-> [StreamActor(121, <<>>, <<110, 112>>,
                            OtherNode(<<MergeNode(11, <<110, 112>>)>>))
                   EXCEPT !.vnode_bitmap = Some("b121all")],
     status |-> Inactive(ParallelUnit(4, 2))]

CreatedSwap == (11 :> (112 :> Actor112s)) @@ (12 :> (121 :> Actor121s))

Swap11 ==
    Reschedule(<<112>>, <<111>>, (110 :> "b110") @@ (112 :> "b112"), <<<<10, 1>>>>,
               Some(ActorMapping(<<1, 3>>, <<110, 112>>)), Some(12), EmptyMap)

Swap12 ==
    Reschedule(<<121>>, <<120>>, (121 :> "b121all"), <<<<11, 2>>>>,
               Some(ActorMapping(<<3>>, <<121>>)), None, EmptyMap)

\* batches that reschedule fragment 11 and its downstream fragment 12
NextOrder ==
    \/ StartCreate({TF1})
    \/ PostCreate({PostCreateArgs(1, <<>>, EmptyMap)})
    \/ MarkCreated({1})
    \/ PreApply({CreatedSwap, CreatedBoth})
    \/ CancelApply({(11 :> {112}) @@ (12 :> {121})})
    \/ PostApply({(11 :> Swap11) @@ (12 :> Swap12),
                  (11 :> ScaleOut11) @@ (12 :> ScaleOut12),
                  (11 :> ScaleIn112) @@ (12 :> ScaleIn121)})

SpecOrder == Init /\ [][NextOrder]_vars

\* bulk replacement of the jobs created so far
NextBatch ==
    \/ StartCreate({TF1, TF2})
    \/ MarkCreated({1, 2})
    \/ CancelCreate({2})
    \/ BatchUpdate(BatchInputs)

SpecBatch == Init /\ [][NextBatch]_vars

\* migrate_actors interleaved with the operations that edit a job
NextMigrate ==
    \/ StartCreate({TF1, TF2})
    \/ PostCreate({PostCreateArgs(1, <<>>, EmptyMap)})
    \/ MarkCreated({1})
    \/ UpdateActorSplits({(10 :> (100 :> <<"s3">>))})
    \/ MigrateList(MigrateInputs)
    \/ MigrateUpdate

SpecMigrate == Init /\ [][NextMigrate]_vars

(***************************************************************************)
(* The write guard.  `let map = &mut self.core.write().await...` borrows   *)
(* from the guard, a temporary of the let statement, whose scope           *)
(* is extended to the end of the function body: the guard is dropped when  *)
(* the operation returns.  Callers are concurrent tasks; a call is split   *)
(* at its suspension points: the acquire, the commit, each publish.        *)
(***************************************************************************)
\* the holder of the write guard once commit_meta! has returned
guard_after_commit(c) == c

LockInputs ==
    {[op |-> "start_create", arg |-> TF1], [op |-> "start_create", arg |-> TF2],
     [op |-> "post_create", arg |-> PostCreateArgs(1, <<>>, EmptyMap)],
     [op |-> "post_create", arg |-> PostCreateArgs(2, <<<<1, PatchTo200>>>>, EmptyMap)],
     [op |-> "drop", arg |-> <<2>>], [op |-> "drop", arg |-> <<1, 2>>],
     [op |-> "batch_update", arg |-> <<TF1>>],
     [op |-> "post_apply_reschedules", arg |-> (11 :> ScaleIn11)]}

\* the body of the operation a caller runs, from the guard to commit_meta!
Run(in, ok) ==
    CASE in.op = "start_create" ->
            start_create_table_fragments(table_fragments, meta_store, in.arg, ok)
      [] in.op = "post_create" ->
            post_create_table_fragments(table_fragments, meta_store,
                                        in.arg.id, in.arg.deps, in.arg.split, ok)
      [] in.op = "drop" ->
            drop_table_fragments_vec(table_fragments, meta_store, in.arg, ok)
      [] in.op = "batch_update" ->
            batch_update_table_fragments(table_fragments, meta_store, in.arg, ok)
      [] in.op = "post_apply_reschedules" ->
            post_apply_reschedules(table_fragments, meta_store, in.arg,
                                   SortedSeq(DOMAIN in.arg), ok)

\* self.core.write().await
Acquire(c) ==
    \E in \in LockInputs :
        /\ call[c].pc = "idle"
        /\ lock = "free"
        /\ lock' = c
        /\ call' = [call EXCEPT ![c] = [pc |-> "locked", op |-> in.op, arg |-> in.arg,
                                        res |-> "ok", queue |-> <<>>]]
        /\ UNCHANGED <<table_fragments, meta_store, last, migrating>>

\* the staged edits and commit_meta!
Committed(c, r) ==
    /\ DispatchersBounded(r.map)
    /\ table_fragments' = r.map
    /\ meta_store' = r.store
    /\ lock' = guard_after_commit(c)
    /\ call' = [call EXCEPT ![c].pc = IF r.notifs # <<>> THEN "publish" ELSE "return",
                            ![c].res = r.res,
                            ![c].queue = r.notifs]
    /\ UNCHANGED <<last, migrating>>

Commit(c) ==
    /\ call[c].pc = "locked"
    /\ \E ok \in BOOLEAN : Committed(c, Run(call[c], ok))

\* one notify_frontend(..).await
Publish(c) ==
    /\ call[c].pc = "publish"
    /\ call' = [call EXCEPT ![c].queue = Tail(@),
                            ![c].pc = IF Len(call[c].queue) = 1 THEN "return" ELSE "publish"]
    /\ UNCHANGED <<table_fragments, meta_store, last, migrating, lock>>

\* the operation returns: the guard, if still alive, is dropped
Return(c) ==
    /\ call[c].pc = "return"
    /\ lock' = IF lock = c THEN "free" ELSE lock
    /\ call' = [call EXCEPT ![c] = Idle]
    /\ UNCHANGED <<table_fragments, meta_store, last, migrating>>

NextLock == \E c \in Callers : Acquire(c) \/ Commit(c) \/ Publish(c) \/ Return(c)

SpecLock == Init /\ [][NextLock]_vars

(***************************************************************************)
(* Properties                                                              *)
(***************************************************************************)
\* the job map and the store rows are the same before and after the step
Untouched == table_fragments' = table_fragments /\ meta_store' = meta_store

\* the ids named in a dependent_table_actors argument
DependentIds(deps) == {deps[i][1] : i \in 1..Len(deps)}

\* the dispatchers a dependent_table_actors argument holds for actor a of job d
RECURSIVE PatchFor(_, _, _)
PatchFor(deps, d, a) ==
    IF deps = <<>> THEN <<>>
    ELSE (IF Head(deps)[1] = d /\ a \in DOMAIN Head(deps)[2]
          THEN Head(deps)[2][a] ELSE <<>>) \o PatchFor(Tail(deps), d, a)

\* the outcome of the committing operation recorded in call record c, were its
\* store write to succeed
IfCommitted(c, order) ==
    CASE c.op = "start_create" ->
            start_create_table_fragments(table_fragments, meta_store, c.arg, TRUE)
      [] c.op = "cancel_create" ->
            cancel_create_table_fragments(table_fragments, meta_store, c.id, TRUE)
      [] c.op = "post_create" ->
            post_create_table_fragments(table_fragments, meta_store, c.id,
                                        c.arg.deps, c.arg.split, TRUE)
      [] c.op = "mark_created" ->
            mark_table_fragments_created(table_fragments, meta_store, c.id, TRUE)
      [] c.op = "drop" ->
            drop_table_fragments_vec(table_fragments, meta_store, c.arg, TRUE)
      [] c.op = "batch_update" ->
            batch_update_table_fragments(table_fragments, meta_store, c.arg, TRUE)
      [] c.op = "update_actor_splits" ->
            update_actor_splits_by_split_assignment(table_fragments, meta_store,
                                                    c.arg, TRUE)
      [] c.op = "post_apply_reschedules" ->
            post_apply_reschedules(table_fragments, meta_store, c.arg, order, TRUE)

CommittingOps ==
    {"start_create", "cancel_create", "post_create", "mark_created", "drop",
     "batch_update", "update_actor_splits", "post_apply_reschedules"}

\* the call recorded in c reaches commit_meta!: with a working store it succeeds
ReachesCommit(c) ==
    IF c.op = "post_apply_reschedules"
    THEN \E order \in Orders(DOMAIN c.arg) : IfCommitted(c, order).res = "ok"
    ELSE IfCommitted(c, <<>>).res = "ok"

\* C1: when the store write of a committing operation fails, the operation
\* returns the store's error, the job map and the store rows are what they were
\* before the call, and nothing is published.
C1_CommitFailureAtomic ==
    [][(last'.op \in CommittingOps /\ ~last'.ok /\ ReachesCommit(last')) =>
         /\ last'.res = "err" /\ last'.msg = "meta store"
         /\ Untouched
         /\ last'.notifs = <<>>
    ]_vars

\* C1 witness: a drop of job 2 whose transaction staged the removal of job 2 and
\* the edit of job 1's sink dispatchers failed in the store: both jobs are in the
\* map and job 1 still dispatches to job 2's chain actor.
C1_Witness ==
    /\ last.op = "drop" /\ last.arg = <<2>> /\ ~last.ok
    /\ last.res = "err" /\ last.msg = "meta store"
    /\ DOMAIN table_fragments = {1, 2} /\ meta_store = table_fragments
    /\ \E i \in 1..Len(table_fragments[1].fragments[12].actors[1].dispatcher) :
          200 \in SeqToSet(table_fragments[1].fragments[12].actors[1].dispatcher[i]
                               .downstream_actor_id)

\* C2 as claimed: while a call is publishing its notifications it no longer holds
\* the write guard of core.
C2_LockReleasedBeforeNotify ==
    \A c \in Callers : call[c].pc = "publish" => lock # c

\* C3 as claimed: the commit of migrate_actors keeps what concurrent operations
\* committed: from the map just before the commit, it changes no job's state, no
\* job's splits and no actor's state, and it drops no job.
C3_MigrateKeepsConcurrentEdits ==
    [][(last'.op = "migrate_actors" /\ last'.res = "ok") =>
         \A id \in DOMAIN table_fragments :
             /\ id \in DOMAIN table_fragments'
             /\ table_fragments'[id].state = table_fragments[id].state
             /\ table_fragments'[id].actor_splits = table_fragments[id].actor_splits
             /\ \A a \in DOMAIN table_fragments[id].actor_status :
                   /\ a \in DOMAIN table_fragments'[id].actor_status
                   /\ table_fragments'[id].actor_status[a].state =
                         table_fragments[id].actor_status[a].state
    ]_vars

\* the actor ids some dispatcher of job tf sends to
DispatchTargets(tf) ==
    UNION {UNION {UNION {SeqToSet(tf.fragments[f].actors[i].dispatcher[d].downstream_actor_id)
                         : d \in 1..Len(tf.fragments[f].actors[i].dispatcher)}
                  : i \in 1..Len(tf.fragments[f].actors)}
           : f \in DOMAIN tf.fragments}

\* the chain actors of the jobs of S that are in map m
DroppedChainActors(m, S) == UNION {chain_actor_ids(m[id]) : id \in S \cap DOMAIN m}

\* C11 as claimed: after a successful drop_table_fragments_vec(S) no dispatcher of
\* any actor of any surviving job, in a fragment of any type, lists a chain actor
\* of a dropped job.
C11_NoDanglingAfterDrop ==
    [][(last'.op = "drop" /\ last'.res = "ok") =>
         \A id \in DOMAIN table_fragments' :
             DispatchTargets(table_fragments'[id])
                 \cap DroppedChainActors(table_fragments, SeqToSet(last'.arg)) = {}
    ]_vars

\* dispatcher list ds with the actors of R taken out of every downstream list
\* and the dispatchers left without a downstream actor deleted
RECURSIVE WithoutTargets(_, _)
WithoutTargets(ds, R) ==
    IF ds = <<>> THEN <<>>
    ELSE LET rest == SelectSeqNotIn(Head(ds).downstream_actor_id, R)
         IN  (IF rest = <<>> THEN <<>>
              ELSE <<[Head(ds) EXCEPT !.downstream_actor_id = rest]>>)
             \o WithoutTargets(Tail(ds), R)

\* the chain actors of the jobs of S in map m that name U as an upstream table
ChainActorsOn(m, S, U) ==
    UNION {chain_actor_ids(m[j]) :
           j \in {k \in S \cap DOMAIN m : U \in dependent_table_ids(m[k])}}

\* C12: a successful drop_table_fragments_vec(S) removes the jobs of S that are
\* present; in every surviving job U that a dropped job names as upstream, each
\* dispatcher of each actor of U's Sink fragments keeps its downstream list minus
\* the chain actors of those dropped jobs and is deleted when the list is empty;
\* every other field, fragment, dispatcher and job is as before.
C12_DropEffects ==
    [][(last'.op = "drop" /\ last'.res = "ok") =>
         LET S == SeqToSet(last'.arg)
         IN  /\ DOMAIN table_fragments' = DOMAIN table_fragments \ S
             /\ DOMAIN meta_store' = DOMAIN meta_store \ S
             /\ \A U \in DOMAIN table_fragments' :
                   LET old == table_fragments[U]
                       new == table_fragments'[U]
                       R == ChainActorsOn(table_fragments, S, U)
                   IN  /\ new.state = old.state
                       /\ new.actor_status = old.actor_status
                       /\ new.actor_splits = old.actor_splits
                       /\ DOMAIN new.fragments = DOMAIN old.fragments
                       /\ \A f \in DOMAIN old.fragments :
                             IF old.fragments[f].fragment_type = "Sink" /\ R # {}
                             THEN /\ Len(new.fragments[f].actors) = Len(old.fragments[f].actors)
                                  /\ \A i \in 1..Len(old.fragments[f].actors) :
                                        new.fragments[f].actors[i] =
                                           [old.fragments[f].actors[i] EXCEPT
                                               !.dispatcher = WithoutTargets(@, R)]
                                  /\ new.fragments[f] =
                                        [old.fragments[f] EXCEPT
                                            !.actors = new.fragments[f].actors]
                             ELSE new.fragments[f] = old.fragments[f]
                       /\ meta_store'[U] = IF R # {} THEN new ELSE meta_store[U]
    ]_vars

\* C12 witness: job 2 was dropped with an absent id in the same call; job 1's
\* sink actor keeps dispatcher 5 with actor 300 only, and one Delete notification
\* was published.
C12_Witness ==
    /\ last.op = "drop" /\ last.res = "ok" /\ last.arg = <<2, 3>>
    /\ DOMAIN table_fragments = {1}
    /\ \E i \in 1..Len(table_fragments[1].fragments[12].actors[1].dispatcher) :
          LET d == table_fragments[1].fragments[12].actors[1].dispatcher[i]
          IN  d.dispatcher_id = 5 /\ d.downstream_actor_id = <<300>>
    /\ Len(last.notifs) = 1 /\ last.notifs[1].operation = "Delete"

\* C13: drop_table_fragments_vec(S) returns the "dependent not exist" error when a
\* job of S in the map names an upstream table that is neither in S nor in the
\* map; then the map and the store are unchanged (no job removed, no dispatcher
\* edited) and no notification is published.
C13_DropMissingUpstream ==
    [][last'.op = "drop" =>
         LET S == SeqToSet(last'.arg)
         IN  (\E j \in S \cap DOMAIN table_fragments :
                 \E U \in dependent_table_ids(table_fragments[j]) :
                     U \notin S /\ U \notin DOMAIN table_fragments)
             => /\ last'.res = "err" /\ last'.msg = "dependent not exist"
                /\ Untouched
                /\ last'.notifs = <<>>
    ]_vars

\* C13 witness: the drop of job 2, which reads job 1 and the absent job 3, failed
\* with a working store; job 2 is still in the map and job 1's sink actor still
\* dispatches to job 2's chain actor, the edit staged before the missing table.
C13_Witness ==
    /\ last.op = "drop" /\ last.arg = <<2>> /\ last.ok
    /\ last.res = "err" /\ last.msg = "dependent not exist"
    /\ DOMAIN table_fragments = {1, 2}
    /\ dependent_table_ids(table_fragments[2]) = {1, 3}
    /\ 220 \in DispatchTargets(table_fragments[1])
    /\ meta_store = table_fragments

\* the last value a list of jobs gives for id
RECURSIVE LastGiven(_, _)
LastGiven(tfs, id) ==
    IF tfs[Len(tfs)].table_id = id THEN tfs[Len(tfs)]
    ELSE LastGiven(SubSeq(tfs, 1, Len(tfs) - 1), id)

\* the fragments of job tf that have state tables
Stateful(tf) == {f \in DOMAIN tf.fragments : tf.fragments[f].state_table_ids # {}}

\* C14: batch_update_table_fragments(list) fails and changes nothing when the id of
\* some element is not in the map; otherwise it either replaces every listed job
\* by the given value in the map and the store, leaves the other jobs alone and
\* publishes one Update notification per stateful fragment of each listed job, or
\* fails in the store write and changes nothing.
C14_BatchUpdate ==
    [][last'.op = "batch_update" =>
         LET tfs == last'.arg
             ids == {tfs[i].table_id : i \in 1..Len(tfs)}
             notes == {last'.notifs[i] : i \in 1..Len(last'.notifs)}
             due == {x \in (1..Len(tfs)) \X {10, 11, 12, 20, 21} : x[2] \in Stateful(tfs[x[1]])}
         IN  IF ~(ids \subseteq DOMAIN table_fragments)
             THEN /\ last'.res = "err" /\ last'.msg = "table not found"
                  /\ Untouched /\ last'.notifs = <<>>
             ELSE \/ /\ last'.res = "ok"
                     /\ DOMAIN table_fragments' = DOMAIN table_fragments
                     /\ \A id \in ids :
                           /\ table_fragments'[id] = LastGiven(tfs, id)
                           /\ meta_store'[id] = LastGiven(tfs, id)
                     /\ \A id \in DOMAIN table_fragments \ ids :
                           table_fragments'[id] = table_fragments[id]
                     /\ \A id \in DOMAIN meta_store \ ids : meta_store'[id] = meta_store[id]
                     /\ notes = {Notification("Update", tfs[x[1]].fragments[x[2]].vnode_mapping[1])
                                   : x \in due}
                     /\ Len(last'.notifs) = Cardinality(due)
                     /\ \A i \in 1..Len(last'.notifs) : last'.notifs[i].operation = "Update"
                  \/ /\ last'.res = "err" /\ last'.msg = "meta store"
                     /\ Untouched /\ last'.notifs = <<>>
    ]_vars

\* C14 witness: a batch whose second element has an absent id failed; job 1, the
\* first element's job, is in the map with its old value.
C14_Witness ==
    /\ last.op = "batch_update" /\ last.res = "err" /\ last.msg = "table not found"
    /\ Len(last.arg) = 2
    /\ last.arg[1].table_id \in DOMAIN table_fragments
    /\ last.arg[2].table_id \notin DOMAIN table_fragments
    /\ table_fragments[last.arg[1].table_id] # last.arg[1]
    /\ meta_store = table_fragments

\* the (job, actor) pairs of the listed jobs L that migrate map mm moves: the
\* actor has an entry in mm and a parallel unit
Migrated(L, mm) ==
    {x \in UNION {{<<id, a>> : a \in DOMAIN L[id].actor_status \cap DOMAIN mm} : id \in DOMAIN L} :
        L[x[1]].actor_status[x[2]].parallel_unit # None}

\* the first pair, in job and actor order, that shares its old parallel unit with x
FirstOfUnit(L, mm, x) ==
    LET same == {y \in Migrated(L, mm) :
                    L[y[1]].actor_status[y[2]].parallel_unit[1].id =
                    L[x[1]].actor_status[x[2]].parallel_unit[1].id}
    IN  CHOOSE y \in same :
            \A z \in same : y[1] < z[1] \/ (y[1] = z[1] /\ y[2] <= z[2])

UnitsOf(w) == IF w \in DOMAIN NodeMap THEN SeqToSet(NodeMap[w].parallel_units) ELSE {}

\* C15 as claimed: after a successful migrate_actors every actor with a parallel
\* unit and an entry migrate[a] = w holds a parallel unit of nodes[w].
C15_Original ==
    [][(last'.op = "migrate_actors" /\ last'.res = "ok") =>
         \A x \in Migrated(migrating[1].listed, last'.arg) :
             table_fragments'[x[1]].actor_status[x[2]].parallel_unit[1]
                 \in UnitsOf(last'.arg[x[2]])
    ]_vars

\* C15 amended: after a successful migrate_actors every actor with a parallel
\* unit and an entry in migrate holds the parallel unit chosen for its old
\* parallel unit: the one given to the first moved actor, in job and actor order,
\* that had the same old parallel unit, taken from the parallel units of that
\* first actor's target worker.
C15_MigratedPlacement ==
    [][(last'.op = "migrate_actors" /\ last'.res = "ok") =>
         LET L == migrating[1].listed
             mm == last'.arg
         IN  \A x \in Migrated(L, mm) :
                 LET y == FirstOfUnit(L, mm, x)
                     new == table_fragments'[x[1]].actor_status[x[2]].parallel_unit
                 IN  /\ new # None
                     /\ new[1] \in UnitsOf(mm[y[2]])
                     /\ new = table_fragments'[y[1]].actor_status[y[2]].parallel_unit
                     /\ new[1].worker_node_id = mm[y[2]]
    ]_vars

\* C15 witness: actors 111 and 200 shared parallel unit 2 and were sent to workers
\* 2 and 3; both now hold the same parallel unit of worker 2.
C15_Witness ==
    /\ last.op = "migrate_actors" /\ last.res = "ok"
    /\ last.arg = (111 :> 2) @@ (200 :> 3)
    /\ DOMAIN table_fragments = {1, 2}
    /\ table_fragments[2].actor_status[200].parallel_unit =
          table_fragments[1].actor_status[111].parallel_unit
    /\ table_fragments[1].actor_status[111].parallel_unit[1].worker_node_id = 2

\* the old parallel units whose first moved actor is sent to worker w
Demand(L, mm, w) ==
    {L[x[1]].actor_status[x[2]].parallel_unit[1].id :
        x \in {y \in Migrated(L, mm) : FirstOfUnit(L, mm, y) = y /\ mm[y[2]] = w}}

\* some target worker is asked for more parallel units than node_map gives it
NoCapacity(L, mm) ==
    \E w \in {mm[a] : a \in DOMAIN mm} :
        Cardinality(Demand(L, mm, w)) > Cardinality(UnitsOf(w))

\* the step is the first part of a migrate_actors call
MigrateReads == migrating = None /\ last'.op \in {"list_table_fragments", "migrate_actors"}

\* C16 as claimed: when a target worker has no free parallel unit left, or is not
\* in nodes, migrate_actors returns an error and changes neither map nor store.
C16_Original ==
    [][(MigrateReads /\ NoCapacity(table_fragments, last'.arg)) =>
         /\ last'.op = "migrate_actors" /\ last'.res = "err"
         /\ Untouched
    ]_vars

\* C16 amended: when a target worker has no free parallel unit left, or is not in
\* nodes, migrate_actors does not return: an unwrap() panics before anything is
\* written; the map and the store are unchanged and nothing is published.  In
\* every other case the call goes on to its batch update.
C16_NoCapacityPanics ==
    [][MigrateReads =>
         /\ Untouched
         /\ last'.notifs = <<>>
         /\ IF NoCapacity(table_fragments, last'.arg)
            THEN last'.op = "migrate_actors" /\ last'.res = "panic" /\ migrating' = None
            ELSE last'.op = "list_table_fragments" /\ migrating' # None
    ]_vars

\* C16 witness: actors 110 and 111, on two parallel units, were sent to worker 3,
\* which has one; the call panicked and actor 110, handled first, is not on
\* worker 3.
C16_Witness ==
    /\ last.op = "migrate_actors" /\ last.res = "panic"
    /\ last.arg = (110 :> 3) @@ (111 :> 3)
    /\ 1 \in DOMAIN table_fragments
    /\ table_fragments[1].actor_status[110].parallel_unit[1].worker_node_id # 3
    /\ table_fragments[1].actor_status[110].parallel_unit[1].id #
          table_fragments[1].actor_status[111].parallel_unit[1].id
    /\ meta_store = table_fragments

\* the parallel unit ids that actor_status of job tf gives the actors of fragment f
UnitsOfActors(tf, f) ==
    {tf.actor_status[a].parallel_unit[1].id :
        a \in {tf.fragments[f].actors[i].actor_id : i \in 1..Len(tf.fragments[f].actors)}
              \cap {b \in DOMAIN tf.actor_status : tf.actor_status[b].parallel_unit # None}}

\* I-mapping-consistent: the parallel unit ids of every vnode mapping are parallel
\* units of the fragment's actors
MappingConsistent(m) ==
    \A id \in DOMAIN m : \A f \in DOMAIN m[id].fragments :
        m[id].fragments[f].vnode_mapping # None =>
            SeqToSet(m[id].fragments[f].vnode_mapping[1].data) \subseteq UnitsOfActors(m[id], f)

\* C17 as claimed: a successful migrate_actors call on a map that satisfies
\* I-mapping-consistent leaves a map that satisfies it.
C17_MigrateKeepsMappingConsistent ==
    [][(/\ last'.op = "migrate_actors" /\ last'.res = "ok"
        /\ MappingConsistent(migrating[1].listed)
        /\ MappingConsistent(table_fragments))
       => MappingConsistent(table_fragments')
    ]_vars

ActorIdSeq(tf, f) ==
    [i \in 1..Len(tf.fragments[f].actors) |-> tf.fragments[f].actors[i].actor_id]

RECURSIVE MergeUpstreams(_, _)
\* the upstream lists of the Merge nodes on fragment f in a node tree, in
\* traversal order
MergeUpstreams(nodes, f) ==
    IF nodes = <<>> THEN <<>>
    ELSE LET node == Head(nodes)
         IN  (IF node.body = "Merge" /\ node.upstream_fragment_id = f
              THEN <<node.upstream_actor_id>> ELSE <<>>)
             \o MergeUpstreams(node.input, f) \o MergeUpstreams(Tail(nodes), f)

\* the job of map m that has fragment f
JobOf(m, f) == CHOOSE id \in DOMAIN m : f \in fragment_ids(m[id])

\* the actors A are the ones at the end of fragment f's actor list in some job
\* of m, as pre_apply_reschedules leaves them
Inserted(m, f, A) ==
    \E id \in DOMAIN m :
        /\ f \in fragment_ids(m[id])
        /\ LET ids == [i \in 1..Len(m[id].fragments[f].actors) |->
                          m[id].fragments[f].actors[i].actor_id]
           IN  /\ Len(ids) >= Len(A)
               /\ SeqToSet(SubSeq(ids, Len(ids) - Len(A) + 1, Len(ids))) = SeqToSet(A)

\* the plans of a post_apply_reschedules call on map m that only add actors,
\* the ones pre_apply_reschedules inserted
ScaleOutPlans(m, plans) ==
    {f \in DOMAIN plans : /\ plans[f].added_actors # <<>>
                          /\ plans[f].removed_actors = <<>>
                          /\ Inserted(m, f, plans[f].added_actors)}

NewCreated(plans) == UNION {SeqToSet(plans[f].added_actors) : f \in DOMAIN plans}

\* C19: when post_apply_reschedules returns Ok, for every plan of the batch
\* that only adds actors A to a fragment F (inserted before by
\* pre_apply_reschedules): F's actor list is the list it had without A
\* followed by the actors of A, all with status Running; for every upstream
\* pair (Fu, d) of the plan, every actor of Fu that is not newly created in the
\* batch has, in each dispatcher with id d, the plan's mapping as hash_mapping
\* and its earlier downstream list followed by A; every actor of the plan's
\* downstream fragment Fd that is not newly created has A appended to its
\* upstream_actor_id list and to every Merge node on F; the newly created
\* actors of Fu and Fd are the records pre_apply_reschedules inserted.
C19_ScaleOutEffects ==
    [][(last'.op = "post_apply_reschedules" /\ last'.res = "ok") =>
        \A F \in ScaleOutPlans(table_fragments, last'.arg) :
            LET P == last'.arg[F]
                A == P.added_actors
                new == NewCreated(last'.arg)
                J == JobOf(table_fragments, F)
                old == table_fragments[J]
                now == table_fragments'[J]
                rest == SelectSeqNotIn(ActorIdSeq(old, F), SeqToSet(A))
            IN  /\ SeqToSet(ActorIdSeq(now, F)) = SeqToSet(rest) \cup SeqToSet(A)
                /\ Len(ActorIdSeq(now, F)) = Len(rest) + Len(A)
                /\ SubSeq(ActorIdSeq(now, F), 1, Len(rest)) = rest
                /\ \A i \in 1..Len(A) : now.actor_status[A[i]].state = "Running"
                /\ \A k \in 1..Len(P.upstream_fragment_dispatcher_ids) :
                       LET Fu == P.upstream_fragment_dispatcher_ids[k][1]
                           d == P.upstream_fragment_dispatcher_ids[k][2]
                       IN  /\ ActorIdSeq(now, Fu) = ActorIdSeq(old, Fu)
                           /\ \A i \in 1..Len(old.fragments[Fu].actors) :
                                  LET was == old.fragments[Fu].actors[i]
                                      is == now.fragments[Fu].actors[i]
                                  IN  IF was.actor_id \in new THEN is = was
                                      ELSE /\ Len(is.dispatcher) = Len(was.dispatcher)
                                           /\ \A j \in 1..Len(was.dispatcher) :
                                                  was.dispatcher[j].dispatcher_id = d =>
                                                      /\ is.dispatcher[j].dispatcher_id = d
                                                      /\ is.dispatcher[j].hash_mapping
                                                             = P.upstream_dispatcher_mapping
                                                      /\ is.dispatcher[j].downstream_actor_id
                                                             = was.dispatcher[j].downstream_actor_id \o A
                /\ P.downstream_fragment_id # None =>
                       LET Fd == P.downstream_fragment_id[1]
                       IN  /\ ActorIdSeq(now, Fd) = ActorIdSeq(old, Fd)
                           /\ \A i \in 1..Len(old.fragments[Fd].actors) :
                                  LET was == old.fragments[Fd].actors[i]
                                      is == now.fragments[Fd].actors[i]
                                      wasm == MergeUpstreams(was.nodes, F)
                                      ism == MergeUpstreams(is.nodes, F)
                                  IN  IF was.actor_id \in new THEN is = was
                                      ELSE /\ is.upstream_actor_id = was.upstream_actor_id \o A
                                           /\ Len(ism) = Len(wasm)
                                           /\ \A n \in 1..Len(wasm) : ism[n] = wasm[n] \o A
    ]_vars

\* fragments 11 and 12 of job 1 were scaled out in one batch: actor 112 is a
\* newly created actor of the upstream fragment of plan 12, actor 121 one of the
\* downstream fragment of plan 11
C19_Witness ==
    /\ last.op = "post_apply_reschedules"
    /\ last.res = "ok"
    /\ last.arg = (11 :> ScaleOut11) @@ (12 :> ScaleOut12)
    /\ 1 \in DOMAIN table_fragments
    /\ ActorIdSeq(table_fragments[1], 11) = <<110, 111, 112>>
    /\ ActorIdSeq(table_fragments[1], 12) = <<120, 121>>
    /\ table_fragments[1].fragments[12].actors[1].upstream_actor_id = <<110, 111, 112>>
    /\ table_fragments[1].fragments[12].actors[2] = Actor121.actor
    /\ table_fragments[1].fragments[11].actors[3] = Actor112w.actor

\* the fragment ids of all jobs of map m
AllFragmentIds(m) == UNION {fragment_ids(m[id]) : id \in DOMAIN m}

\* C21: a post_apply_reschedules whose plans name a fragment id that no job of
\* the map has panics, and leaves the in-memory map and the Meta Store as they
\* were and publishes no notification, whatever the plans it could match.
C21_UnmatchedPlanFailsWhole ==
    [][(/\ last'.op = "post_apply_reschedules"
        /\ ~(DOMAIN last'.arg \subseteq AllFragmentIds(table_fragments))) =>
            /\ last'.res = "panic"
            /\ table_fragments' = table_fragments
            /\ meta_store' = meta_store
            /\ last'.notifs = <<>>
    ]_vars

\* a batch with a plan that removes actor 111 from fragment 11 of job 1 and a
\* plan for fragment 99 failed on the assertion; actor 111 is still there
C21_Witness ==
    /\ last.op = "post_apply_reschedules"
    /\ last.arg = (11 :> ScaleIn11) @@ (99 :> NoChange)
    /\ last.res = "panic"
    /\ last.msg = "all reschedules must be applied"
    /\ 1 \in DOMAIN table_fragments
    /\ 111 \in SeqToSet(ActorIdSeq(table_fragments[1], 11))
    /\ 111 \in DOMAIN table_fragments[1].actor_status

\* the actor with id a in fragment g of job tf
ActorById(tf, g, a) ==
    LET i == CHOOSE k \in 1..Len(tf.fragments[g].actors) : tf.fragments[g].actors[k].actor_id = a
    IN  tf.fragments[g].actors[i]

\* C20: when post_apply_reschedules returns Ok, for every plan of the batch
\* that removes actors R from a fragment F of a job: no actor of R is a key of
\* the job's actor_status or actor_splits or is in F's actor list; every
\* dispatcher of the job that had an actor of F in its downstream list lists no
\* actor of R; and every actor of the job that is in the plan's downstream
\* fragment, or has a Merge node on F, has no actor of R in its
\* upstream_actor_id list nor in any Merge node on F.
C20_ScaleInEffects ==
    [][(last'.op = "post_apply_reschedules" /\ last'.res = "ok") =>
        \A F \in {f \in DOMAIN last'.arg : last'.arg[f].removed_actors # <<>>} :
            LET P == last'.arg[F]
                R == SeqToSet(P.removed_actors)
                J == JobOf(table_fragments, F)
                old == table_fragments[J]
                now == table_fragments'[J]
                inF == SeqToSet(ActorIdSeq(old, F))
            IN  /\ R \cap DOMAIN now.actor_status = {}
                /\ R \cap DOMAIN now.actor_splits = {}
                /\ R \cap SeqToSet(ActorIdSeq(now, F)) = {}
                /\ \A g \in DOMAIN now.fragments :
                       \A i \in 1..Len(now.fragments[g].actors) :
                           LET is == now.fragments[g].actors[i]
                               was == ActorById(old, g, is.actor_id)
                           IN  /\ Len(is.dispatcher) = Len(was.dispatcher)
                               /\ \A j \in 1..Len(was.dispatcher) :
                                      SeqToSet(was.dispatcher[j].downstream_actor_id) \cap inF # {}
                                          => SeqToSet(is.dispatcher[j].downstream_actor_id) \cap R = {}
                               /\ (P.downstream_fragment_id = Some(g)
                                      \/ MergeUpstreams(was.nodes, F) # <<>>) =>
                                      /\ SeqToSet(is.upstream_actor_id) \cap R = {}
                                      /\ \A n \in 1..Len(MergeUpstreams(is.nodes, F)) :
                                             SeqToSet(MergeUpstreams(is.nodes, F)[n]) \cap R = {}
    ]_vars

\* actors 112 and 121, running with splits assigned to 112, were taken out of
\* fragments 11 and 12 in one batch
C20_Witness ==
    /\ last.op = "post_apply_reschedules"
    /\ last.res = "ok"
    /\ last.arg = (11 :> ScaleIn112) @@ (12 :> ScaleIn121)
    /\ 1 \in DOMAIN table_fragments
    /\ ActorIdSeq(table_fragments[1], 11) = <<110, 111>>
    /\ ActorIdSeq(table_fragments[1], 12) = <<120>>
    /\ table_fragments[1].fragments[10].actors[1].dispatcher[1].downstream_actor_id = <<110, 111>>
    /\ table_fragments[1].fragments[12].actors[1].upstream_actor_id = <<110, 111>>
    /\ table_fragments[1].fragments[11].actors[1].vnode_bitmap = Some("b110half")

\* the actor ids of a created_actors argument are in no job of m
FreshActors(m, created) ==
    \A f \in DOMAIN created : DOMAIN created[f] \cap AllActorIds(m) = {}

\* the fragments of a created_actors argument that some job of m has
FragmentsHit(m, created) ==
    {f \in DOMAIN created : \E id \in DOMAIN m : f \in fragment_ids(m[id])}

FragmentActorIds(tf, f) == {tf.fragments[f].actors[i].actor_id : i \in DOMAIN tf.fragments[f].actors}

\* C18: in every state, for every created_actors argument X whose actor ids are
\* in no job, the ledger of pre_apply_reschedules(X) lists exactly the actors
\* it inserted (for each fragment of X that a job has, the actor ids of X, put
\* at the end of the fragment's actor list and into the job's actor_status),
\* and cancel_apply_reschedules on that ledger gives back the map as it was
\* before pre_apply_reschedules: the same actor lists in the same order and
\* the same actor_status.
C18_PreCancelRoundTrip ==
    \A created \in ScaleCreatedInputs :
        FreshActors(table_fragments, created) =>
            LET r == pre_apply_reschedules(table_fragments, created)
                hit == FragmentsHit(table_fragments, created)
            IN  /\ DOMAIN r.applied = hit
                /\ \A f \in hit : r.applied[f] = DOMAIN created[f]
                /\ DOMAIN r.map = DOMAIN table_fragments
                /\ \A id \in DOMAIN table_fragments :
                       LET old == table_fragments[id]
                           new == r.map[id]
                       IN  /\ DOMAIN new.fragments = DOMAIN old.fragments
                           /\ \A f \in DOMAIN old.fragments :
                                  /\ SubSeq(new.fragments[f].actors, 1,
                                            Len(old.fragments[f].actors))
                                         = old.fragments[f].actors
                                  /\ FragmentActorIds(new, f) \ FragmentActorIds(old, f)
                                         = IF f \in hit THEN r.applied[f] ELSE {}
                                  /\ Len(new.fragments[f].actors)
                                         = Len(old.fragments[f].actors)
                                           + IF f \in hit THEN Cardinality(r.applied[f]) ELSE 0
                           /\ DOMAIN new.actor_status \ DOMAIN old.actor_status
                                  = UNION {r.applied[f] : f \in hit \cap DOMAIN old.fragments}
                /\ cancel_apply_reschedules(r.map, r.applied) = table_fragments

\* two actors were added to fragment 11 of job 1 and taken back
C18_Witness ==
    /\ last.op = "cancel_apply_reschedules"
    /\ last.arg = (11 :> {112, 113})
    /\ 1 \in DOMAIN table_fragments
    /\ FreshActors(table_fragments, (11 :> ((112 :> Actor112) @@ (113 :> Actor113))))
    /\ pre_apply_reschedules(table_fragments,
                             (11 :> ((112 :> Actor112) @@ (113 :> Actor113)))).map
           # table_fragments

\* the actor ids in the actor lists of the fragments of job tf
ListedActors(tf) == UNION {FragmentActorIds(tf, f) : f \in DOMAIN tf.fragments}

\* C22: I-status-cover.  In every reachable state, for every job of the map the
\* keys of actor_status are exactly the actor ids in the actor lists of the
\* job's fragments.
C22_StatusCover ==
    \A id \in DOMAIN table_fragments :
        DOMAIN table_fragments[id].actor_status = ListedActors(table_fragments[id])

\* job 1 holds the pre-applied actor 112, not yet applied or cancelled, and a
\* post_apply_reschedules has just removed actor 111
C22_Witness ==
    /\ last.op = "post_apply_reschedules"
    /\ last.res = "ok"
    /\ last.arg = (11 :> ScaleIn11)
    /\ 1 \in DOMAIN table_fragments
    /\ ListedActors(table_fragments[1]) = {100, 110, 112, 120}
    /\ table_fragments[1].actor_status[112].state = "Inactive"

\* the fragments, as <<job id, fragment id>>, whose actor list has actor a
FragmentsOfActor(m, a) ==
    {p \in UNION {{<<id, f>> : f \in DOMAIN m[id].fragments} : id \in DOMAIN m} :
        a \in FragmentActorIds(m[p[1]], p[2])}

\* C23: I-actors-unique.  In every reachable state, every actor id is in the
\* actor list of at most one fragment over all jobs; an actor that
\* pre_apply_reschedules has just inserted is in exactly one.
C23_ActorsUnique ==
    /\ \A a \in AllActorIds(table_fragments) :
           Cardinality(FragmentsOfActor(table_fragments, a)) <= 1
    /\ (last.op = "pre_apply_reschedules") =>
           \A f \in DOMAIN last.arg : \A a \in last.arg[f] :
               Cardinality(FragmentsOfActor(table_fragments, a)) = 1

\* jobs 1 and 4 both have a fragment 11; pre_apply_reschedules has put actor
\* 112 into the one of job 1
C23_Witness ==
    /\ last.op = "pre_apply_reschedules"
    /\ last.arg = (11 :> {112})
    /\ {1, 4} \subseteq DOMAIN table_fragments
    /\ 11 \in DOMAIN table_fragments[4].fragments
    /\ FragmentsOfActor(table_fragments, 112) = {<<1, 11>>}

\* the downstream actor ids of the dispatchers of job tf that are no actors of tf
ForeignTargets(tf) == DispatchTargets(tf) \ ListedActors(tf)

\* the downstream actor ids of the dispatchers a dependent_table_actors argument
\* holds for job d
PatchTargets(deps, d) ==
    UNION {UNION {UNION {SeqToSet(deps[i][2][a][k].downstream_actor_id)
                         : k \in 1..Len(deps[i][2][a])}
                  : a \in DOMAIN deps[i][2]}
           : i \in {j \in 1..Len(deps) : deps[j][1] = d}}

RunningActors(tf) == {a \in DOMAIN tf.actor_status : tf.actor_status[a].state = "Running"}

\* C25 as claimed: in every reachable state every job in state Creating has all
\* its actors in state Inactive.
C25_Original ==
    \A id \in DOMAIN table_fragments :
        table_fragments[id].state = "Creating" => RunningActors(table_fragments[id]) = {}

\* C25: a job enters the map with no Running actor, and an actor of a job
\* becomes Running only by a successful post_create_table_fragments of that job
\* (after which all the actors it had are Running and its state is still
\* Creating) or as an added actor of a successful post_apply_reschedules; so
\* a job on which neither has succeeded has all its actors Inactive.
C25_RunningOnlyAfterPostCreate ==
    [][/\ \A id \in DOMAIN table_fragments' :
              RunningActors(table_fragments'[id]) \subseteq
                  (IF id \in DOMAIN table_fragments
                   THEN RunningActors(table_fragments[id]) ELSE {})
                  \cup (IF last'.op = "post_create" /\ last'.res = "ok" /\ last'.id = id
                        THEN DOMAIN table_fragments'[id].actor_status ELSE {})
                  \cup (IF last'.op = "post_apply_reschedules" /\ last'.res = "ok"
                        THEN NewCreated(last'.arg) ELSE {})
       /\ (last'.op = "post_create" /\ last'.res = "ok") =>
              /\ table_fragments'[last'.id].state = "Creating"
              /\ DOMAIN table_fragments[last'.id].actor_status
                     \subseteq RunningActors(table_fragments'[last'.id])
    ]_vars

\* post_create_table_fragments has succeeded on job 1, which holds the
\* pre-applied actor 112: the job is Creating and all its actors are Running
C25_Witness ==
    /\ last.op = "post_create"
    /\ last.res = "ok"
    /\ last.id = 1
    /\ table_fragments[1].state = "Creating"
    /\ RunningActors(table_fragments[1]) = {100, 110, 111, 112, 120}

\* the Add notifications that the job tf owes: one per fragment with
\* non-empty state tables, carrying that fragment's vnode mapping
AddsDue(tf) ==
    {Notification("Add", tf.fragments[f].vnode_mapping[1]) : f \in Stateful(tf)}

\* C26: the sequence start_create(J); post_create(J.id); mark_created(J.id)
\* ends with J Created and all its actors Running; post_create publishes
\* exactly one Add per fragment of J with non-empty state tables, carrying
\* the fragment's vnode mapping, and only when its commit succeeded (the
\* Meta Store then holds the activated job); start_create and mark_created
\* publish nothing.
C26_CreateSequence ==
    [][/\ last'.op \in {"start_create", "mark_created"} => last'.notifs = <<>>
       /\ (last'.op = "start_create" /\ last'.res = "ok")
            => /\ table_fragments'[last'.id] = last'.arg
               /\ meta_store'[last'.id] = last'.arg
       /\ (last'.op = "post_create" /\ last'.res # "ok") => last'.notifs = <<>>
       /\ (last'.op = "post_create" /\ last'.res = "ok")
            => LET J == table_fragments'[last'.id]
               IN  /\ SeqToSet(last'.notifs) = AddsDue(J)
                   /\ Len(last'.notifs) = Cardinality(Stateful(J))
                   /\ \A f \in Stateful(J) :
                          J.fragments[f].vnode_mapping
                              = table_fragments[last'.id].fragments[f].vnode_mapping
                   /\ meta_store'[last'.id] = J
                   /\ J.state = "Creating"
                   /\ RunningActors(J) = ListedActors(J)
       /\ (/\ last.op = "post_create" /\ last.res = "ok"
           /\ last'.op = "mark_created" /\ last'.id = last.id /\ last'.res = "ok")
            => LET J == table_fragments'[last'.id]
               IN  /\ J.state = "Created"
                   /\ RunningActors(J) = ListedActors(J)
                   /\ meta_store'[last'.id] = J]_vars

\* a job with a stateful fragment was started, activated (its Adds
\* published) and marked created
C26_Witness ==
    /\ last.op = "mark_created" /\ last.res = "ok" /\ last.id = 2
    /\ last.notifs = <<>>
    /\ 2 \in DOMAIN table_fragments
    /\ table_fragments[2].state = "Created"
    /\ Cardinality(Stateful(table_fragments[2])) >= 1
    /\ RunningActors(table_fragments[2]) = ListedActors(table_fragments[2])

\* the (job, fragment) pairs a drop of the ids S owes a Delete for: the
\* fragments with non-empty state tables of the jobs of S present in m
DeletesDue(m, S) ==
    {p \in (S \cap DOMAIN m) \X AllFragmentIds(m) : p[2] \in Stateful(m[p[1]])}

\* C27: a successful drop_table_fragments_vec(S) has committed the removal
\* and publishes exactly one Delete per fragment with non-empty state tables
\* of each job of S that was present, carrying the mapping the fragment had
\* before the drop; nothing is published for absent ids or for the surviving
\* jobs (whose dispatchers it may have patched).
C27_DropNotifies ==
    [][(last'.op = "drop" /\ last'.res = "ok") =>
         LET S == SeqToSet(last'.arg)
             due == DeletesDue(table_fragments, S)
         IN  /\ SeqToSet(last'.notifs) =
                   {Notification("Delete",
                        table_fragments[p[1]].fragments[p[2]].vnode_mapping[1]) : p \in due}
             /\ Len(last'.notifs) = Cardinality(due)
             /\ DOMAIN meta_store' \cap S = {}
             /\ \A i \in 1..Len(last'.notifs) :
                   /\ last'.notifs[i].fragment_id \notin AllFragmentIds(table_fragments')
                   /\ \E j \in S \cap DOMAIN table_fragments :
                         last'.notifs[i].fragment_id \in DOMAIN table_fragments[j].fragments
    ]_vars

\* job 2 was dropped together with the absent id 3 while its upstream job 1,
\* which has fragments with state tables, survives: the only notification is
\* the Delete of job 2's fragment
C27_Witness ==
    /\ last.op = "drop" /\ last.res = "ok" /\ last.arg = <<2, 3>>
    /\ DOMAIN table_fragments = {1}
    /\ Stateful(table_fragments[1]) # {}
    /\ Len(last.notifs) = 1
    /\ last.notifs[1].operation = "Delete"
    /\ last.notifs[1].fragment_id \in {20, 22}

NotifyingOps == {"post_create", "drop", "batch_update", "post_apply_reschedules"}

\* the jobs that the call c changes or removes when its commit succeeds,
\* evaluated in the state the call starts from
Affected(c) ==
    {i \in DOMAIN table_fragments :
        IF c.op = "post_apply_reschedules"
        THEN \E order \in Orders(DOMAIN c.arg) :
                LET after == IfCommitted(c, order).map
                IN  i \notin DOMAIN after \/ after[i] # table_fragments[i]
        ELSE LET after == IfCommitted(c, <<>>).map
             IN  i \notin DOMAIN after \/ after[i] # table_fragments[i]}

\* C28: when the Meta Store commit of post_create, drop, batch_update or
\* post_apply_reschedules fails, the call publishes no notification and
\* leaves the map as it was, and the select_table_fragments_by_table_id
\* that follows it on an affected job succeeds and returns that job's
\* value from before the failed call.
C28_FailedCommitSilent ==
    [][/\ (last'.op \in NotifyingOps /\ ~last'.ok /\ ReachesCommit(last'))
            => /\ last'.res = "err"
               /\ last'.notifs = <<>>
               /\ table_fragments' = table_fragments
       /\ (/\ last.op \in NotifyingOps /\ ~last.ok /\ last.res = "err"
           /\ last.msg = "meta store"
           /\ last'.op = "select" /\ last'.id \in Affected(last))
            => /\ last'.res = "ok"
               /\ last'.value = Some(table_fragments[last'.id])
    ]_vars

\* job 1 was read right after a post_apply_reschedules that would have
\* removed its actor 111 failed at the commit: the read returns the job
\* with actor 111
C28_Witness ==
    /\ last.op = "select" /\ last.id = 1 /\ last.res = "ok"
    /\ last.after = [op |-> "post_apply_reschedules", res |-> "err", msg |-> "meta store"]
    /\ last.value = Some(table_fragments[1])
    /\ 111 \in AllActorIds(table_fragments)
    /\ meta_store = table_fragments

\* the actor ids that pre_apply_reschedules inserts in SpecActors
PreAppliedIds == {112}

\* C29: an actor inserted by pre_apply_reschedules enters the Meta Store only
\* through a post_apply_reschedules commit, whatever other operations run
\* before cancel_apply_reschedules; so after the cancel the Meta Store equals
\* the in-memory map.
C29_PreAppliedNeverStored ==
    [][/\ last'.op # "post_apply_reschedules"
            => \A a \in PreAppliedIds :
                  a \in AllActorIds(meta_store') => a \in AllActorIds(meta_store)
       /\ (/\ last'.op = "cancel_apply_reschedules"
           /\ PreAppliedIds \cap AllActorIds(meta_store) = {})
            => meta_store' = table_fragments'
    ]_vars

\* C30: without pre/cancel_apply_reschedules, between operations the
\* in-memory map equals the Meta Store content (same job ids, same values),
\* and a manager built by new() from the Meta Store has the running
\* manager's map.
C30_MapEqualsStore ==
    /\ DOMAIN table_fragments = DOMAIN meta_store
    /\ \A id \in DOMAIN table_fragments : table_fragments[id] = meta_store[id]
    /\ FragmentManager_new(meta_store) = table_fragments

\* the manager was restarted after a reschedule had removed actor 111 of
\* job 1 and job 2 had been activated with splits
C30_Witness ==
    /\ last = NoCall
    /\ DOMAIN table_fragments = {1, 2}
    /\ 111 \notin AllActorIds(table_fragments)
    /\ table_fragments[2].actor_splits # EmptyMap
    /\ table_fragments[1].state = "Created"

\* C31: post_apply_reschedules processes the affected jobs in ascending job
\* id and each job's plans in ascending fragment id; the Update
\* notifications, queued in processing order, then come in ascending
\* (job id, fragment id) order.
C31_AscendingProcessing ==
    [][(last'.op = "post_apply_reschedules" /\ last'.res = "ok") =>
         \A i, j \in 1..Len(last'.notifs) :
            i < j =>
              LET fi == last'.notifs[i].fragment_id
                  fj == last'.notifs[j].fragment_id
                  ji == JobOf(table_fragments, fi)
                  jj == JobOf(table_fragments, fj)
              IN  ji < jj \/ (ji = jj /\ fi < fj)
    ]_vars

\* C32: in every reachable state the keys of every job's actor-split map
\* are actor ids of that job (keys of its actor_status).
C32_SplitsOfExistingActors ==
    \A id \in DOMAIN table_fragments :
       DOMAIN table_fragments[id].actor_splits
           \subseteq DOMAIN table_fragments[id].actor_status

\* the fragments of the plans in the order post_apply_reschedules processes
\* them: jobs ids ascending, each job's plans in the order the map yields
RECURSIVE ProcessedFragments(_, _, _)
ProcessedFragments(m, ids, order) ==
    IF ids = <<>> THEN <<>>
    ELSE SelectSeqIn(order, fragment_ids(m[Head(ids)]))
         \o ProcessedFragments(m, Tail(ids), order)

\* C33: a successful post_apply_reschedules has committed and publishes
\* exactly one Update per rescheduled fragment with non-empty state tables,
\* in processing order, carrying the fragment's id and its vnode mapping
\* after the plan (recomputed from the plan's upstream_dispatcher_mapping
\* and the surviving actors' parallel units when the plan has one, unchanged
\* otherwise); nothing for fragments without state tables, and nothing
\* when the call fails.
C33_RescheduleNotifies ==
    [][last'.op = "post_apply_reschedules" =>
         IF last'.res # "ok" THEN last'.notifs = <<>>
         ELSE LET P == last'.arg
                  m == table_fragments
                  after(f) == table_fragments'[JobOf(m, f)]
              IN  /\ \A f \in DOMAIN P : meta_store'[JobOf(m, f)] = after(f)
                  /\ \E order \in Orders(DOMAIN P) :
                        LET due == SelectSeq(
                                ProcessedFragments(m, SortedSeq(DOMAIN m), order),
                                LAMBDA f : f \in Stateful(m[JobOf(m, f)]))
                        IN  /\ Len(last'.notifs) = Len(due)
                            /\ \A i \in 1..Len(due) :
                                  last'.notifs[i] =
                                     Notification("Update",
                                        [after(due[i]).fragments[due[i]].vnode_mapping[1]
                                            EXCEPT !.fragment_id = due[i]])
                  /\ \A f \in DOMAIN P :
                        LET old == m[JobOf(m, f)].fragments[f].vnode_mapping
                            new == after(f).fragments[f].vnode_mapping
                        IN  IF P[f].upstream_dispatcher_mapping = None \/ old = None
                            THEN new = old
                            ELSE new = Some(actor_mapping_to_parallel_unit_mapping(f,
                                     [a \in FragmentActorIds(after(f), f) |->
                                         after(f).actor_status[a].parallel_unit[1].id],
                                     P[f].upstream_dispatcher_mapping[1]))
    ]_vars

\* fragment 11 (state tables) and fragment 10 (none) were rescheduled in one
\* call: the only Update is for fragment 11, with its new one-unit mapping
C33_Witness ==
    /\ last.op = "post_apply_reschedules" /\ last.res = "ok"
    /\ DOMAIN last.arg = {10, 11}
    /\ Len(last.notifs) = 1
    /\ last.notifs[1].operation = "Update" /\ last.notifs[1].fragment_id = 11
    /\ last.notifs[1].data = table_fragments[1].fragments[11].vnode_mapping[1].data
    /\ table_fragments[1].fragments[11].vnode_mapping # TF1.fragments[11].vnode_mapping

\* C34: within one migrate_actors call, across all jobs, migrated actors
\* that shared an old parallel-unit id receive the same new parallel unit
\* and migrated actors with different old parallel-unit ids receive
\* different ones, each taken from the units of a target worker.
C34_UnitsHandedOutOnce ==
    [][(last'.op = "migrate_actors" /\ last'.res = "ok") =>
         LET L == migrating[1].listed
             mm == last'.arg
             old(x) == L[x[1]].actor_status[x[2]].parallel_unit[1].id
             new(x) == table_fragments'[x[1]].actor_status[x[2]].parallel_unit
         IN  \A x, y \in Migrated(L, mm) :
                 /\ new(x) # None
                 /\ new(x)[1] \in UNION {UnitsOf(mm[a]) : a \in DOMAIN mm}
                 /\ (old(x) = old(y)) <=> (new(x) = new(y))
    ]_vars

\* actors 110 (parallel unit 1) and 111 (parallel unit 2) of job 1 were both
\* sent to worker 2 and hold its two different parallel units
C34_Witness ==
    /\ last.op = "migrate_actors" /\ last.res = "ok"
    /\ last.arg = (110 :> 2) @@ (111 :> 2)
    /\ 1 \in DOMAIN table_fragments
    /\ {table_fragments[1].actor_status[a].parallel_unit[1].id : a \in {110, 111}} = {3, 4}
    /\ table_fragments[1].actor_status[100].parallel_unit[1].id = 1

\* C35: migrate_actors leaves the parallel unit of every actor without an
\* entry in the migrate map unchanged, and leaves a job none of whose
\* actors is migrated entirely unchanged: same value in the map, same row
\* in the Meta Store, no Update notification for its fragments.
C35_MigrateFrame ==
    [][(last'.op = "migrate_actors" /\ last'.res = "ok") =>
         LET L == migrating[1].listed
             mm == last'.arg
             touched == {x[1] : x \in Migrated(L, mm)}
         IN  /\ DOMAIN table_fragments' = DOMAIN table_fragments
             /\ \A id \in DOMAIN table_fragments' :
                   IF id \in touched
                   THEN \A a \in DOMAIN table_fragments[id].actor_status \ DOMAIN mm :
                           /\ a \in DOMAIN table_fragments'[id].actor_status
                           /\ table_fragments'[id].actor_status[a].parallel_unit
                                 = table_fragments[id].actor_status[a].parallel_unit
                   ELSE /\ table_fragments'[id] = table_fragments[id]
                        /\ meta_store'[id] = meta_store[id]
                        /\ \A i \in 1..Len(last'.notifs) :
                              last'.notifs[i].fragment_id
                                  \notin fragment_ids(table_fragments[id])
    ]_vars

\* actor 111 of job 1 was moved to worker 2 while job 2, whose actor 200 shared
\* 111's old parallel unit, was not named: job 2 is as created, 110 keeps
\* its unit
C35_Witness ==
    /\ last.op = "migrate_actors" /\ last.res = "ok" /\ last.arg = (111 :> 2)
    /\ DOMAIN table_fragments = {1, 2}
    /\ table_fragments[2] = TF2 /\ meta_store[2] = TF2
    /\ table_fragments[1].actor_status[111].parallel_unit[1].worker_node_id = 2
    /\ table_fragments[1].actor_status[110].parallel_unit
          = TF1.actor_status[110].parallel_unit
    /\ last.notifs # <<>>

\* the map and store after the successful drops of the id lists in calls, one
\* call after the other, from the map m and the store
RECURSIVE DropInTurn(_, _, _)
DropInTurn(m, store, calls) ==
    IF calls = <<>> THEN [map |-> m, store |-> store]
    ELSE LET r == drop_table_fragments_vec(m, store, Head(calls), TRUE)
         IN  DropInTurn(r.map, r.store, Tail(calls))

\* the actors that the dispatchers of job tf's Sink fragments send to
SinkTargets(tf) ==
    UNION {UNION {UNION {SeqToSet(d.downstream_actor_id) : d \in SeqToSet(a.dispatcher)}
                  : a \in SeqToSet(tf.fragments[f].actors)}
           : f \in {g \in DOMAIN tf.fragments : tf.fragments[g].fragment_type = "Sink"}}

\* C36: dropping two present jobs J1 and J2 that depend on the same
\* surviving job U in one drop_table_fragments_vec call gives the same map
\* and store as dropping them in two successive calls in either order, and
\* U's Sink dispatchers lose the chain actors of both.
C36_DropTogetherOrInTurn ==
    [][(/\ last'.op = "drop" /\ last'.res = "ok"
        /\ Len(last'.arg) = 2
        /\ SeqToSet(last'.arg) \subseteq DOMAIN table_fragments
        /\ \E U \in DOMAIN table_fragments \ SeqToSet(last'.arg) :
              \A J \in SeqToSet(last'.arg) : U \in dependent_table_ids(table_fragments[J]))
       => LET J1 == last'.arg[1]
              J2 == last'.arg[2]
              a == DropInTurn(table_fragments, meta_store, <<<<J1>>, <<J2>>>>)
              b == DropInTurn(table_fragments, meta_store, <<<<J2>>, <<J1>>>>)
          IN  /\ table_fragments' = a.map /\ meta_store' = a.store
              /\ table_fragments' = b.map /\ meta_store' = b.store
              /\ \A U \in DOMAIN table_fragments' :
                    (\A J \in {J1, J2} : U \in dependent_table_ids(table_fragments[J]))
                    => /\ SinkTargets(table_fragments'[U])
                            \cap (chain_actor_ids(table_fragments[J1])
                                  \cup chain_actor_ids(table_fragments[J2])) = {}
                       /\ meta_store'[U] = table_fragments'[U]
    ]_vars

\* jobs 2 and 5 were dropped in one call after job 1's sink actor 120 had
\* got dispatcher 5 to actors 200, 300 and dispatcher 6 to actors 500, 300:
\* job 1 survives and both dispatchers are left with actor 300 only
C36_Witness ==
    /\ last.op = "drop" /\ last.res = "ok" /\ last.arg = <<2, 5>>
    /\ Len(last.notifs) = 2
    /\ DOMAIN table_fragments = {1}
    /\ SinkTargets(table_fragments[1]) = {300}
    /\ {d.dispatcher_id :
           d \in SeqToSet(table_fragments[1].fragments[12].actors[1].dispatcher)} = {5, 6}
    /\ meta_store = table_fragments

\* a stream node with the upstream actors of its Merge nodes as sets
RECURSIVE NodeAsSets(_)
NodeAsSets(n) ==
    [body |-> n.body, upstream_fragment_id |-> n.upstream_fragment_id,
     upstream_actor_id |-> SeqToSet(n.upstream_actor_id),
     input |-> [i \in 1..Len(n.input) |-> NodeAsSets(n.input[i])]]

\* a job with actor lists, dispatcher lists, downstream and upstream actor
\* lists taken as sets
JobAsSets(tf) ==
    [table_id |-> tf.table_id, state |-> tf.state,
     actor_status |-> tf.actor_status, actor_splits |-> tf.actor_splits,
     fragments |-> [f \in DOMAIN tf.fragments |->
        [vnode_mapping |-> tf.fragments[f].vnode_mapping,
         fragment_type |-> tf.fragments[f].fragment_type,
         state_table_ids |-> tf.fragments[f].state_table_ids,
         actors |->
            {[actor_id |-> a.actor_id, vnode_bitmap |-> a.vnode_bitmap,
              upstream_actor_id |-> SeqToSet(a.upstream_actor_id),
              nodes |-> IF a.nodes = None THEN None ELSE Some(NodeAsSets(a.nodes[1])),
              dispatcher |->
                 {[dispatcher_id |-> d.dispatcher_id,
                   hash_mapping |-> d.hash_mapping,
                   downstream_actor_id |-> SeqToSet(d.downstream_actor_id)]
                  : d \in SeqToSet(a.dispatcher)}]
             : a \in SeqToSet(tf.fragments[f].actors)}]]]

\* what a post_apply_reschedules call leaves behind, order of lists aside
OutcomeAsSets(r) ==
    [res |-> r.res,
     map |-> [id \in DOMAIN r.map |-> JobAsSets(r.map[id])],
     store |-> [id \in DOMAIN r.store |-> JobAsSets(r.store[id])],
     notifs |-> SeqToSet(r.notifs)]

\* C37: for a batch that reschedules a fragment and its downstream fragment
\* the outcome of post_apply_reschedules (final jobs with lists as sets,
\* the set of Update notifications, success or failure) is the same for
\* every order in which the plans are processed.
C37_OrderIndependent ==
    [][(last'.op = "post_apply_reschedules" /\ DOMAIN last'.arg = {11, 12}) =>
         LET a == post_apply_reschedules(table_fragments, meta_store,
                                         last'.arg, <<11, 12>>, last'.ok)
             b == post_apply_reschedules(table_fragments, meta_store,
                                         last'.arg, <<12, 11>>, last'.ok)
         IN  /\ OutcomeAsSets(a) = OutcomeAsSets(b)
             /\ \E r \in {a, b} :
                   /\ table_fragments' = r.map /\ meta_store' = r.store
                   /\ last'.res = r.res /\ last'.notifs = r.notifs
    ]_vars

\* actors 111 and 120 were replaced by 112 and 121 in one batch
C37_Witness ==
    /\ last.op = "post_apply_reschedules" /\ last.res = "ok"
    /\ last.arg = (11 :> Swap11) @@ (12 :> Swap12)
    /\ FragmentActorIds(table_fragments[1], 11) = {110, 112}
    /\ FragmentActorIds(table_fragments[1], 12) = {121}
    /\ SinkTargets(table_fragments[1]) = {}
    /\ {n.fragment_id : n \in SeqToSet(last.notifs)} = {11, 12}

\* C38: job state is monotone: a job that is Created stays Created as long
\* as it is in the map, whatever operations run.
C38_CreatedStaysCreated ==
    [][\A id \in DOMAIN table_fragments \cap DOMAIN table_fragments' :
          table_fragments[id].state = "Created"
              => table_fragments'[id].state = "Created"
    ]_vars

\* C39: cancel_create_table_fragments(id) removes the job with that id
\* whatever its state and changes no other job (dispatchers that
\* post_create spliced into upstream jobs stay), in the map and in the
\* Meta Store, and publishes nothing.
C39_CancelCreateFrame ==
    [][last'.op = "cancel_create" =>
         /\ last'.notifs = <<>>
         /\ last'.res = (IF last'.ok THEN "ok" ELSE "err")
         /\ IF last'.ok
            THEN /\ DOMAIN table_fragments' = DOMAIN table_fragments \ {last'.id}
                 /\ DOMAIN meta_store' = DOMAIN meta_store \ {last'.id}
                 /\ \A other \in DOMAIN table_fragments' :
                       /\ table_fragments'[other] = table_fragments[other]
                       /\ meta_store'[other] = meta_store[other]
            ELSE Untouched
    ]_vars

\* job 2 was cancelled after its post_create had spliced a dispatcher to its
\* actor 200 into job 1: job 2 is gone and job 1 still sends to actor 200
C39_Witness ==
    /\ last.op = "cancel_create" /\ last.res = "ok" /\ last.id = 2
    /\ DOMAIN table_fragments = {1} /\ DOMAIN meta_store = {1}
    /\ 200 \in DispatchTargets(table_fragments[1])

\* C40: update_actor_splits_by_split_assignment(A) changes only the
\* actor_splits of the jobs that have a fragment keyed in A, merging A's
\* entries for the job's fragments into the split map (other entries kept,
\* mentioned actors overwritten) and writing these jobs to the Meta Store;
\* other jobs are unchanged and not written, and nothing is published.
C40_UpdateSplitsFrame ==
    [][last'.op = "update_actor_splits" =>
         /\ last'.notifs = <<>>
         /\ IF last'.res # "ok" THEN Untouched
            ELSE /\ DOMAIN table_fragments' = DOMAIN table_fragments
                 /\ DOMAIN meta_store' = DOMAIN meta_store
                 /\ \A id \in DOMAIN table_fragments :
                       LET A == last'.arg
                           tf == table_fragments[id]
                           mine == fragment_ids(tf) \cap DOMAIN A
                           mentioned == UNION {DOMAIN A[f] : f \in mine}
                       IN  IF mine = {}
                           THEN /\ table_fragments'[id] = tf
                                /\ meta_store'[id] = meta_store[id]
                           ELSE /\ table_fragments'[id] =
                                      [tf EXCEPT !.actor_splits =
                                          [a \in DOMAIN tf.actor_splits \cup mentioned |->
                                              IF a \in mentioned
                                              THEN A[CHOOSE f \in mine : a \in DOMAIN A[f]][a]
                                              ELSE tf.actor_splits[a]]]
                                /\ meta_store'[id] = table_fragments'[id]
    ]_vars

\* job 1 got splits for actors 100 and 111 in one call while actor 110 kept
\* the split of an earlier call; job 2, with no fragment in the assignment,
\* is as created
C40_Witness ==
    /\ last.op = "update_actor_splits" /\ last.res = "ok"
    /\ last.arg = (10 :> (100 :> <<"s1">>)) @@ (11 :> (111 :> <<"s4">>))
    /\ DOMAIN table_fragments = {1, 2}
    /\ table_fragments[1].actor_splits =
          (100 :> <<"s1">>) @@ (110 :> <<"s4">>) @@ (111 :> <<"s4">>)
    /\ table_fragments[2] = TF2 /\ meta_store[2] = TF2

\* C4: start_create_table_fragments(J) fails with "already exist" and changes
\* nothing when J.id is a key of the map (the existing job is kept); otherwise a
\* successful call inserts J under J.id in the map and in the store, and the only
\* other outcome is a failed store write; it never publishes a notification.
C4_StartCreate ==
    [][last'.op = "start_create" =>
         LET tf == last'.arg
             id == tf.table_id
         IN  /\ last'.notifs = <<>>
             /\ id \in DOMAIN table_fragments =>
                   /\ last'.res = "err" /\ last'.msg = "already exist"
                   /\ Untouched
             /\ id \notin DOMAIN table_fragments =>
                   \/ /\ last'.res = "ok"
                      /\ table_fragments' = (id :> tf) @@ table_fragments
                      /\ meta_store' = (id :> tf) @@ meta_store
                   \/ /\ last'.res = "err" /\ last'.msg = "meta store"
                      /\ Untouched
    ]_vars

\* C4 witness: a create of an id that is present failed and the stored job is
\* another job than the one submitted.
C4_Witness ==
    /\ last.op = "start_create" /\ last.res = "err" /\ last.msg = "already exist"
    /\ last.id \in DOMAIN table_fragments
    /\ table_fragments[last.id] # last.arg
    /\ meta_store[last.id] # last.arg

\* C5: a successful post_create_table_fragments on a Creating job J sets every
\* actor of J Running, replaces J's splits by the assignment, keeps J Creating,
\* appends the patch to the dispatchers of the patched actors of every listed
\* dependent job and leaves everything else as it was; the store rows of the
\* edited jobs equal the map's after the one commit.
C5_PostCreate ==
    [][last'.op = "post_create" /\ last'.res = "ok" =>
         LET id == last'.id
             a == last'.arg
             J == table_fragments[id]
             K == table_fragments'[id]
             D == DependentIds(a.deps)
         IN  /\ id \in DOMAIN table_fragments /\ J.state = "Creating"
             /\ DOMAIN table_fragments' = DOMAIN table_fragments
             /\ K.state = "Creating"
             /\ DOMAIN K.actor_status = DOMAIN J.actor_status
             /\ \A x \in DOMAIN K.actor_status :
                   /\ K.actor_status[x].state = "Running"
                   /\ K.actor_status[x].parallel_unit = J.actor_status[x].parallel_unit
             /\ DOMAIN K.actor_splits = UNION {DOMAIN a.split[f] : f \in DOMAIN a.split}
             /\ \A f \in DOMAIN a.split : \A x \in DOMAIN a.split[f] :
                   K.actor_splits[x] = a.split[f][x]
             /\ id \notin D => K.fragments = J.fragments
             /\ \A d \in D \ {id} :
                   LET U == table_fragments[d]
                       V == table_fragments'[d]
                   IN  /\ d \in DOMAIN table_fragments
                       /\ V.state = U.state /\ V.actor_status = U.actor_status
                       /\ V.actor_splits = U.actor_splits
                       /\ DOMAIN V.fragments = DOMAIN U.fragments
                       /\ \A f \in DOMAIN U.fragments :
                             /\ Len(V.fragments[f].actors) = Len(U.fragments[f].actors)
                             /\ \A i \in 1..Len(U.fragments[f].actors) :
                                   LET u == U.fragments[f].actors[i]
                                   IN  V.fragments[f].actors[i] =
                                          [u EXCEPT !.dispatcher =
                                              @ \o PatchFor(a.deps, d, u.actor_id)]
                             /\ V.fragments[f] =
                                   [U.fragments[f] EXCEPT !.actors = V.fragments[f].actors]
             /\ \A k \in DOMAIN table_fragments \ (D \cup {id}) :
                   table_fragments'[k] = table_fragments[k]
             /\ DOMAIN meta_store' = DOMAIN meta_store \cup D \cup {id}
             /\ \A k \in D \cup {id} : meta_store'[k] = table_fragments'[k]
             /\ \A k \in DOMAIN meta_store \ (D \cup {id}) : meta_store'[k] = meta_store[k]
    ]_vars

\* C5 witness: a post_create with a dispatcher patch and a split assignment
\* succeeded and the dependent's sink actor holds the new dispatcher.
C5_Witness ==
    /\ last.op = "post_create" /\ last.res = "ok"
    /\ last.arg.deps # <<>> /\ last.arg.split # EmptyMap
    /\ {1, 2} \subseteq DOMAIN table_fragments
    /\ 12 \in DOMAIN table_fragments[1].fragments
    /\ table_fragments[1].fragments[12].actors # <<>>
    /\ 200 \in DOMAIN table_fragments[2].actor_status
    /\ \E i \in 1..Len(table_fragments[1].fragments[12].actors[1].dispatcher) :
          table_fragments[1].fragments[12].actors[1].dispatcher[i].dispatcher_id = 3
    /\ table_fragments[2].actor_status[200].state = "Running"

\* C6 as claimed: post_create_table_fragments returns a "not exist" error whenever
\* id or a listed dependent is absent, with the map and the store unchanged and
\* no notification.
C6_Original ==
    [][last'.op = "post_create" =>
         LET id == last'.id
             D == DependentIds(last'.arg.deps)
         IN  (id \notin DOMAIN table_fragments \/ ~(D \subseteq DOMAIN table_fragments))
             => /\ last'.res = "err"
                /\ last'.msg \in {"not exist", "dependent not exist"}
                /\ Untouched
                /\ last'.notifs = <<>>
    ]_vars

\* C6 amended: post_create_table_fragments returns a "not exist" error when id is
\* absent, or when id is a Creating job and a listed dependent is absent; then the
\* map and the store are unchanged (no actor state, split or dispatcher edit is
\* visible) and no notification is published.  On a Created job the assertion on
\* the job state comes before the dependents are looked up.
C6_PostCreateNotFound ==
    [][last'.op = "post_create" =>
         LET id == last'.id
             D == DependentIds(last'.arg.deps)
         IN  (\/ id \notin DOMAIN table_fragments
              \/ /\ id \in DOMAIN table_fragments
                 /\ table_fragments[id].state = "Creating"
                 /\ ~(D \subseteq DOMAIN table_fragments))
             => /\ last'.res = "err"
                /\ last'.msg \in {"not exist", "dependent not exist"}
                /\ Untouched
                /\ last'.notifs = <<>>
    ]_vars

\* C6 witness: the call failed on the second dependent while the first listed
\* dependent exists, and the job's actors are still Inactive.
C6_Witness ==
    /\ last.op = "post_create" /\ last.res = "err" /\ last.msg = "dependent not exist"
    /\ 1 \in DOMAIN table_fragments /\ 2 \in DOMAIN table_fragments
    /\ last.arg.deps # <<>>
    /\ Head(last.arg.deps)[1] = 1
    /\ 12 \in DOMAIN table_fragments[1].fragments
    /\ table_fragments[1].fragments[12].actors # <<>>
    /\ 200 \in DOMAIN table_fragments[2].actor_status
    /\ table_fragments[1].fragments[12].actors[1].dispatcher = <<>>
    /\ table_fragments[2].actor_status[200].state = "Inactive"

\* C7 as claimed: post_create_table_fragments and mark_table_fragments_created on a
\* Created job return an error value, with the map and the store unchanged and no
\* notification.
C7_Original ==
    [][/\ last'.op \in {"post_create", "mark_created"}
       /\ last'.id \in DOMAIN table_fragments
       /\ table_fragments[last'.id].state = "Created"
       => /\ last'.res = "err"
          /\ Untouched
          /\ last'.notifs = <<>>
    ]_vars

\* C7 amended: post_create_table_fragments and mark_table_fragments_created on a
\* Created job do not return: the assert_eq! on the job state panics; the map and
\* the store are unchanged and no notification is published.
C7_IllegalStatePanics ==
    [][/\ last'.op \in {"post_create", "mark_created"}
       /\ last'.id \in DOMAIN table_fragments
       /\ table_fragments[last'.id].state = "Created"
       => /\ last'.res = "panic"
          /\ Untouched
          /\ last'.notifs = <<>>
    ]_vars

\* C7 witness: a call on a Created job ended in the assertion.
C7_Witness ==
    /\ last.op \in {"post_create", "mark_created"} /\ last.res = "panic"
    /\ last.id \in DOMAIN table_fragments
    /\ table_fragments[last.id].state = "Created"

\* C8: mark_table_fragments_created(id) on a Creating job changes only that job's
\* state, to Created, in the map and in the store; on a missing id it returns an
\* error and changes nothing; it publishes no notification.
C8_MarkCreated ==
    [][last'.op = "mark_created" =>
         LET id == last'.id
         IN  /\ last'.notifs = <<>>
             /\ id \notin DOMAIN table_fragments =>
                   /\ last'.res = "err" /\ last'.msg = "not exist"
                   /\ Untouched
             /\ (id \in DOMAIN table_fragments /\ table_fragments[id].state = "Creating") =>
                   \/ /\ last'.res = "ok"
                      /\ table_fragments' =
                            [table_fragments EXCEPT ![id].state = "Created"]
                      /\ meta_store' = (id :> table_fragments'[id]) @@ meta_store
                   \/ /\ last'.res = "err" /\ last'.msg = "meta store"
                      /\ Untouched
    ]_vars

\* C8 witness: a job with Running actors and splits was marked Created while
\* another job is in the map.
C8_Witness ==
    /\ last.op = "mark_created" /\ last.res = "ok"
    /\ last.id \in DOMAIN table_fragments
    /\ table_fragments[last.id].state = "Created"
    /\ \E x \in DOMAIN table_fragments[last.id].actor_status :
          table_fragments[last.id].actor_status[x].state = "Running"
    /\ table_fragments[last.id].actor_splits # EmptyMap
    /\ DOMAIN table_fragments = {1, 2}

\* C9: cancel_create_table_fragments is idempotent: in every state and for every
\* id, a second call leaves the map and the store as the first call left them,
\* and a call with an absent id succeeds and leaves the map as it is.
C9_CancelIdempotent ==
    \A id \in TableIds :
        LET once == cancel_create_table_fragments(table_fragments, meta_store, id, TRUE)
            twice == cancel_create_table_fragments(once.map, once.store, id, TRUE)
        IN  /\ once.res = "ok" /\ twice.res = "ok"
            /\ twice.map = once.map /\ twice.store = once.store
            /\ id \notin DOMAIN once.map /\ id \notin DOMAIN once.store
            /\ id \notin DOMAIN table_fragments => once.map = table_fragments

\* C9 witness: a cancel of an id that was never created succeeded, with both
\* jobs still in the map.
C9_Witness ==
    /\ last.op = "cancel_create" /\ last.res = "ok" /\ last.id = 3
    /\ DOMAIN table_fragments = {1, 2}
    /\ meta_store = table_fragments

\* C10: in every state, for every job J whose id is not in the map,
\* start_create_table_fragments(J) followed by cancel_create_table_fragments(J.id)
\* gives back the map and the store rows, and neither call publishes.
C10_CreateCancelNoop ==
    \A tf \in JobTemplates :
        tf.table_id \notin DOMAIN table_fragments =>
            LET a == start_create_table_fragments(table_fragments, meta_store, tf, TRUE)
                b == cancel_create_table_fragments(a.map, a.store, tf.table_id, TRUE)
            IN  /\ a.res = "ok" /\ b.res = "ok"
                /\ tf.table_id \in DOMAIN a.map
                /\ b.map = table_fragments /\ b.store = meta_store
                /\ a.notifs = <<>> /\ b.notifs = <<>>

\* C10 witness: job 2 was created and then cancelled while job 1 stays.
C10_Witness ==
    /\ last.op = "cancel_create" /\ last.res = "ok" /\ last.id = 2
    /\ DOMAIN table_fragments = {1}
    /\ meta_store = table_fragments

====
